---- MODULE Spec2Model ----
(***************************************************************************)
(* State-machine model of the rpg-mcp tool handlers: combat encounters     *)
(* with HP write-back and rests (combat-tools.ts, rest-tools.ts), the      *)
(* theft / fence engine (consolidated/theft-manage.ts) and the quest       *)
(* engine (quest-tools.ts).  Each subsystem has its own specification over *)
(* the shared variables; the other subsystems' variables stay unchanged.   *)
(***************************************************************************)
EXTENDS Integers, Sequences, FiniteSets, TLC

VARIABLES
    characters,   \* characters table: id -> [hp, maxHp, con]
    encDb,        \* encounters table row of the one encounter id, or NoRow
    manager,      \* CombatManager: sessionId -> engine held for the encounter id, or NoEngine
    lastCall,     \* outcome of the last call when it was end_encounter, else OtherCall
    theftRecords, \* theft_records table: itemId -> record, or NoRow
    fences,       \* fences table: npcId -> fence, or NoRow
    lastTheft,    \* the last theft_manage call and its outcome
    lastRoute,    \* the last consolidated tool call: its route and sub-handler
    quests,       \* quests table: questId -> quest, or NoRow
    questLogs,    \* quest_logs table: characterId -> log, or NoRow
    inventory,    \* inventory_items: characterId -> itemId -> row, or NoRow
    lastInv,      \* the last InventoryRepository call and what it found and returned
    lastQuest,    \* the last quest tool call and its outcome
    completions,  \* history: characterId -> questId -> successful complete_quest calls
    worldManager, \* WorldManager: sessionId -> world held for the one world id, or NoEngine
    worldDb,      \* worlds table row of the one world id, or NoRow
    lastWorld,    \* the last world tool call and its outcome
    effects,      \* custom_effects table: effect id -> effect, or NoRow
    spellbook,    \* synthesized_spells: the rows in the order of their insertion
    lastImprov,   \* the last improvisation_manage action and its result
    store,        \* worlds table and the tables whose rows carry a world_id
    roster,       \* characters rows created by batch_manage, in order
    lastBatch     \* the last batch_manage create_characters call and its result

combatVars == <<characters, encDb, manager, lastCall>>
theftVars == <<theftRecords, fences, lastTheft>>
questVars == <<quests, questLogs, inventory, lastQuest, completions>>
inventoryVars == <<inventory, lastInv>>
vars == <<characters, encDb, manager, lastCall, theftRecords, fences, lastTheft,
          lastRoute, quests, questLogs, inventory, lastInv, lastQuest, completions,
          worldManager, worldDb, lastWorld, effects, spellbook, lastImprov,
          store, roster, lastBatch>>

worldVars == <<worldManager, worldDb, lastWorld>>
improvisationVars == <<effects, spellbook, lastImprov>>
schemaVars == <<store>>
batchVars == <<roster, lastBatch>>

\* what the calls of one subsystem leave alone
outsideCombat ==
    <<theftVars, lastRoute, questVars, lastInv, worldVars, improvisationVars,
      schemaVars, batchVars>>
outsideTheft ==
    <<combatVars, lastRoute, questVars, lastInv, worldVars, improvisationVars,
      schemaVars, batchVars>>
outsideQuest ==
    <<combatVars, theftVars, lastRoute, lastInv, worldVars, improvisationVars,
      schemaVars, batchVars>>
outsideInventory ==
    <<combatVars, theftVars, lastRoute, quests, questLogs, lastQuest,
      completions, worldVars, improvisationVars,
      schemaVars, batchVars>>
outsideWorld ==
    <<combatVars, theftVars, lastRoute, questVars, lastInv, improvisationVars,
      schemaVars, batchVars>>
outsideImprovisation ==
    <<combatVars, theftVars, lastRoute, questVars, lastInv, worldVars,
      schemaVars, batchVars>>
outsideSchema ==
    <<combatVars, theftVars, lastRoute, questVars, lastInv, worldVars,
      improvisationVars, batchVars>>
outsideBatch ==
    <<combatVars, theftVars, lastRoute, questVars, lastInv, worldVars,
      improvisationVars, schemaVars>>

\* the absent row / absent engine (findById, Map.get returning nothing)
NoRow == [absent |-> TRUE]
NoEngine == [absent |-> TRUE]

Min(a, b) == IF a < b THEN a ELSE b
Max(a, b) == IF a > b THEN a ELSE b

(***************************************************************************)
(* Bounds of the model.                                                    *)
(***************************************************************************)
\* largest hp / maxHp a caller supplies to create_encounter or a character holds
MaxHp == 2
\* rounds after which advance_turn is no longer explored
MaxRound == 2

(***************************************************************************)
(* Combat: sessions, participants, dice.                                   *)
(***************************************************************************)
Sessions == {"A", "B"}
\* the session whose calls the combat specification explores
MainSessions == {"A"}
\* "hero" is also the id of a persisted character, "goblin" is ad hoc
ParticipantOrder == <<"hero", "goblin">>
ParticipantIds == {"hero", "goblin"}
\* ids a caller names as a character
CharacterIds == {"hero", "goblin"}
\* values tried for the initiative d20 of each participant: hero below the
\* goblin, and tied with it
InitiativeRolls == [hero : {5, 10}, goblin : {10}]
\* values tried for the attack d20: natural 1, below and at the dc, natural 20
AttackRolls == {1, 9, 10, 20}
\* schema-valid integers tried for attackBonus, dc, damage and amount
AttackBonuses == {0}
Dcs == {10}
Damages == {-1, 1}
Amounts == {-1, 1}
ConScores == {7}
HitDieSize == 8
\* values tried for one hit die, and the sequences of rolls of a short rest
HitDieRolls == {1, HitDieSize}
HitDiceToSpend == {0, 1, 2}
HitDiceRolls == [1..2 -> HitDieRolls]

(***************************************************************************)
(* CharacterRepository (storage/repos/character.repo.ts).                  *)
(***************************************************************************)
\* findById: the row, or NoRow when the id is not persisted
CharFindById(chars, id) == chars[id]

\* update(id, {hp}): rewrite the hp column of an existing row only
CharUpdateHp(chars, id, hp) ==
    IF CharFindById(chars, id) = NoRow THEN chars
    ELSE [chars EXCEPT ![id].hp = hp]

(***************************************************************************)
(* CombatEngine (engine/combat/engine.ts).                                 *)
(***************************************************************************)
\* position at which a participant with initiative v enters an order that is
\* already sorted descending: behind every entry with initiative >= v (stable)
RECURSIVE InsertPos(_, _, _, _)
InsertPos(order, init, v, i) ==
    IF i > Len(order) THEN i
    ELSE IF init[order[i]] >= v THEN InsertPos(order, init, v, i + 1)
    ELSE i

InsertAt(order, i, id) ==
    SubSeq(order, 1, i - 1) \o <<id>> \o SubSeq(order, i, Len(order))

\* stable descending sort of the participants by rolled initiative
RECURSIVE SortByInitiative(_, _, _)
SortByInitiative(ids, init, k) ==
    IF k = 0 THEN <<>>
    ELSE LET prev == SortByInitiative(ids, init, k - 1)
         IN InsertAt(prev, InsertPos(prev, init, init[ids[k]], 1), ids[k])

\* startEncounter: roll d20 + initiativeBonus each, sort, round 1, index 0
StartEncounter(args, rolls) ==
    LET parts == [p \in ParticipantIds |->
                    [hp |-> args[p].hp, maxHp |-> args[p].maxHp,
                     initiative |-> rolls[p] + args[p].initiativeBonus,
                     isEnemy |-> args[p].isEnemy, conditions |-> <<>>]]
        init == [p \in ParticipantIds |-> parts[p].initiative]
    IN [participants |-> parts,
        turnOrder |-> SortByInitiative(ParticipantOrder, init, Len(ParticipantOrder)),
        currentTurnIndex |-> 0,
        round |-> 1]

\* d20 attack roll: natural 1 misses, natural 20 hits, otherwise roll + bonus >= dc
AttackHits(roll, attackBonus, dc) ==
    IF roll = 1 THEN FALSE
    ELSE IF roll = 20 THEN TRUE
    ELSE roll + attackBonus >= dc

\* damage applied by an attack: none on a miss, doubled on a natural 20
DamageApplied(roll, attackBonus, dc, damage) ==
    IF ~AttackHits(roll, attackBonus, dc) THEN 0
    ELSE IF roll = 20 THEN 2 * damage
    ELSE damage

\* hp left after damage: subtracted and clamped at 0
HpAfterDamage(hp, applied) == Max(0, hp - applied)

\* executeAttack: the target's hp after the roll
ExecuteAttack(engine, targetId, attackBonus, dc, damage, roll) ==
    [engine EXCEPT !.participants[targetId].hp =
        HpAfterDamage(@, DamageApplied(roll, attackBonus, dc, damage))]

\* hp after a heal: added and capped at maxHp
HpAfterHeal(hp, amount, maxHp) == Min(hp + amount, maxHp)

\* executeHeal: no roll
ExecuteHeal(engine, targetId, amount) ==
    [engine EXCEPT !.participants[targetId].hp =
        HpAfterHeal(@, amount, engine.participants[targetId].maxHp)]

IsDefeated(engine, id) == engine.participants[id].hp <= 0

\* one step of the turn pointer; the round grows when the index wraps to 0
StepTurn(engine) ==
    LET next == (engine.currentTurnIndex + 1) % Len(engine.turnOrder)
    IN [engine EXCEPT !.currentTurnIndex = next,
                      !.round = IF next = 0 THEN @ + 1 ELSE @]

\* nextTurnWithConditions: step at least once, then on while the participant
\* reached is defeated, at most once around the turn order
RECURSIVE SkipDefeated(_, _)
SkipDefeated(engine, left) ==
    IF left = 0 \/ ~IsDefeated(engine, engine.turnOrder[engine.currentTurnIndex + 1])
    THEN engine
    ELSE SkipDefeated(StepTurn(engine), left - 1)

NextTurnWithConditions(engine) ==
    SkipDefeated(StepTurn(engine), Len(engine.turnOrder) - 1)

CurrentParticipantId(engine) == engine.turnOrder[engine.currentTurnIndex + 1]

(***************************************************************************)
(* EncounterRepository (storage/repos/encounter.repo.ts).                  *)
(***************************************************************************)
\* the row create_encounter persists from the engine's initial state
EncounterRow(state, status) ==
    [tokens |-> state.participants,
     round |-> state.round,
     activeTokenId |-> CurrentParticipantId(state),
     status |-> status]

\* saveState: rewrite tokens, round and active token of the row, keep its status
SaveState(row, state) ==
    IF row = NoRow THEN NoRow
    ELSE EncounterRow(state, row.status)

\* position of id in a sequence (0-based), 0 when absent
RECURSIVE IndexOf(_, _, _)
IndexOf(order, id, i) ==
    IF i > Len(order) THEN 0
    ELSE IF order[i] = id THEN i - 1
    ELSE IndexOf(order, id, i + 1)

\* loadState: the engine state rebuilt from a row; the turn order is the
\* tokens sorted by their stored initiative, the index that of the active token
LoadState(row) ==
    LET init == [p \in ParticipantIds |-> row.tokens[p].initiative]
        order == SortByInitiative(ParticipantOrder, init, Len(ParticipantOrder))
    IN [participants |-> row.tokens,
        turnOrder |-> order,
        currentTurnIndex |-> IndexOf(order, row.activeTokenId, 1),
        round |-> row.round]

(***************************************************************************)
(* Combat tool handlers (server/combat-tools.ts).                          *)
(***************************************************************************)
\* what lastCall holds after a call that no property observes
OtherCall == [op |-> "other"]

\* participants a caller may pass to create_encounter: hp and maxHp are any
\* positive integers, independently of each other and of the character row
ParticipantArgs ==
    [hero : [hp : 1..MaxHp, maxHp : 1..MaxHp, initiativeBonus : {0}, isEnemy : {FALSE}],
     goblin : [hp : {1}, maxHp : {1}, initiativeBonus : {0}, isEnemy : {TRUE}]]

\* engine hp values explored: one step below 0 and above MaxHp
HpExplored(hp) == hp \in (0 - 1)..(MaxHp + 1)

\* the engine a handler works on: the session's own, else one auto-loaded
\* from the encounters table, else none (the handler throws not-found)
EngineFor(s) ==
    IF manager[s] # NoEngine THEN manager[s]
    ELSE IF encDb # NoRow THEN LoadState(encDb)
    ELSE NoEngine

\* the tokens as they would be persisted without the rolled initiative
TokensWithoutInitiative(state) ==
    [p \in ParticipantIds |-> [state.participants[p] EXCEPT !.initiative = 0]]

\* the tokens create_encounter persists: each participant with its rolled
\* initiative, isEnemy, hp, maxHp and conditions
TokensOf(state) ==
    [p \in ParticipantIds |->
        [hp |-> state.participants[p].hp,
         maxHp |-> state.participants[p].maxHp,
         initiative |-> state.participants[p].initiative,
         isEnemy |-> state.participants[p].isEnemy,
         conditions |-> state.participants[p].conditions]]

\* create_encounter: start the engine, keep it under sessionId:encounterId,
\* persist the initial row with status active (the encounter id is fresh)
HandleCreateEncounter(s, args, rolls) ==
    /\ encDb = NoRow
    /\ LET state == StartEncounter(args, rolls)
       IN /\ manager' = [manager EXCEPT ![s] = state]
          /\ encDb' = [EncounterRow(state, "active") EXCEPT !.tokens = TokensOf(state)]
    /\ lastCall' = OtherCall
    /\ UNCHANGED characters

\* get_encounter_state: auto-load into the session's manager when absent
HandleGetEncounterState(s) ==
    /\ manager' = [manager EXCEPT ![s] = EngineFor(s)]
    /\ lastCall' = OtherCall
    /\ UNCHANGED <<characters, encDb>>

\* the attack as it would be if the handler passed dc and attackBonus swapped
HandleAttackSwapsArguments(s, targetId, attackBonus, dc, damage, roll, complete) ==
    LET engine == EngineFor(s)
    IN IF engine = NoEngine
       THEN /\ lastCall' = OtherCall
            /\ UNCHANGED <<characters, encDb, manager>>
       ELSE IF ~complete
       THEN \* attackBonus, dc or damage undefined: thrown after the auto-load
            /\ manager' = [manager EXCEPT ![s] = engine]
            /\ lastCall' = [op |-> "failed", session |-> s]
            /\ UNCHANGED <<characters, encDb>>
       ELSE LET state == ExecuteAttack(engine, targetId, dc, attackBonus, damage, roll)
            IN /\ HpExplored(state.participants[targetId].hp)
               /\ manager' = [manager EXCEPT ![s] = state]
               /\ encDb' = SaveState(encDb, state)
               /\ lastCall' = [op |-> "attack", session |-> s, targetId |-> targetId,
                               attackBonus |-> attackBonus, dc |-> dc,
                               damage |-> damage, roll |-> roll,
                               before |-> engine.participants,
                               defeated |-> IsDefeated(state, targetId)]
               /\ UNCHANGED characters

\* execute_combat_action with action attack
HandleAttack(s, targetId, attackBonus, dc, damage, roll, complete) ==
    LET engine == EngineFor(s)
    IN IF engine = NoEngine
       THEN /\ lastCall' = OtherCall
            /\ UNCHANGED <<characters, encDb, manager>>
       ELSE IF ~complete
       THEN \* attackBonus, dc or damage undefined: thrown after the auto-load
            /\ manager' = [manager EXCEPT ![s] = engine]
            /\ lastCall' = [op |-> "failed", session |-> s]
            /\ UNCHANGED <<characters, encDb>>
       ELSE LET state == ExecuteAttack(engine, targetId, attackBonus, dc, damage, roll)
            IN /\ HpExplored(state.participants[targetId].hp)
               /\ manager' = [manager EXCEPT ![s] = state]
               /\ encDb' = SaveState(encDb, state)
               /\ lastCall' = [op |-> "attack", session |-> s, targetId |-> targetId,
                               attackBonus |-> attackBonus, dc |-> dc,
                               damage |-> damage, roll |-> roll,
                               before |-> engine.participants,
                               defeated |-> IsDefeated(state, targetId)]
               /\ UNCHANGED characters

\* execute_combat_action with action heal
HandleHeal(s, targetId, amount, complete) ==
    LET engine == EngineFor(s)
    IN IF engine = NoEngine
       THEN /\ lastCall' = OtherCall
            /\ UNCHANGED <<characters, encDb, manager>>
       ELSE IF ~complete
       THEN \* amount undefined: thrown after the auto-load
            /\ manager' = [manager EXCEPT ![s] = engine]
            /\ lastCall' = [op |-> "failed", session |-> s]
            /\ UNCHANGED <<characters, encDb>>
       ELSE LET state == ExecuteHeal(engine, targetId, amount)
            IN /\ HpExplored(state.participants[targetId].hp)
               /\ manager' = [manager EXCEPT ![s] = state]
               /\ encDb' = SaveState(encDb, state)
               /\ lastCall' = OtherCall
               /\ UNCHANGED characters

\* advance_turn as it would be if it called the engine's plain one-step turn
HandleAdvanceTurnStepsOnce(s) ==
    LET engine == EngineFor(s)
    IN IF engine = NoEngine
       THEN /\ lastCall' = OtherCall
            /\ UNCHANGED <<characters, encDb, manager>>
       ELSE LET state == StepTurn(engine)
            IN /\ state.round <= MaxRound
               /\ manager' = [manager EXCEPT ![s] = state]
               /\ encDb' = SaveState(encDb, state)
               /\ lastCall' = [op |-> "advance_turn", session |-> s,
                               beforeIndex |-> engine.currentTurnIndex,
                               beforeRound |-> engine.round]
               /\ UNCHANGED characters

\* advance_turn
HandleAdvanceTurn(s) ==
    LET engine == EngineFor(s)
    IN IF engine = NoEngine
       THEN /\ lastCall' = OtherCall
            /\ UNCHANGED <<characters, encDb, manager>>
       ELSE LET state == NextTurnWithConditions(engine)
            IN /\ state.round <= MaxRound
               /\ manager' = [manager EXCEPT ![s] = state]
               /\ encDb' = SaveState(encDb, state)
               /\ lastCall' = [op |-> "advance_turn", session |-> s,
                               beforeIndex |-> engine.currentTurnIndex,
                               beforeRound |-> engine.round]
               /\ UNCHANGED characters

\* SyncHp as it would be if the loop wrote maxHp where it should write hp
RECURSIVE SyncHpWritesMaxHp(_, _, _)
SyncHpWritesMaxHp(chars, state, k) ==
    IF k = 0 THEN chars
    ELSE LET prev == SyncHpWritesMaxHp(chars, state, k - 1)
             id == ParticipantOrder[k]
         IN IF CharFindById(prev, id) # NoRow
            THEN CharUpdateHp(prev, id, state.participants[id].maxHp)
            ELSE prev

\* the HP sync loop of end_encounter over the first k participants
RECURSIVE SyncHp(_, _, _)
SyncHp(chars, state, k) ==
    IF k = 0 THEN chars
    ELSE LET prev == SyncHp(chars, state, k - 1)
             id == ParticipantOrder[k]
         IN IF CharFindById(prev, id) # NoRow
            THEN CharUpdateHp(prev, id, state.participants[id].hp)
            ELSE prev

\* end_encounter as it would be if the manager were not keyed by session:
\* it ends the engine of whichever session holds one
HandleEndEncounterAnySession(s) ==
    IF \A t \in Sessions : manager[t] = NoEngine
    THEN /\ lastCall' = [op |-> "end_encounter", session |-> s, ok |-> FALSE]
         /\ UNCHANGED <<characters, encDb, manager>>
    ELSE LET t == CHOOSE t \in Sessions : manager[t] # NoEngine
         IN /\ characters' = SyncHp(characters, manager[t], Len(ParticipantOrder))
            /\ manager' = [manager EXCEPT ![t] = NoEngine]
            /\ lastCall' = [op |-> "end_encounter", session |-> s, ok |-> TRUE,
                            final |-> manager[t].participants,
                            persisted |-> {c \in CharacterIds : characters[c] # NoRow}]
            /\ UNCHANGED encDb

\* end_encounter: only the session's own engine counts (no auto-load); write
\* the final hp back to the character rows, then drop the engine
HandleEndEncounter(s) ==
    IF manager[s] = NoEngine
    THEN /\ lastCall' = [op |-> "end_encounter", session |-> s, ok |-> FALSE]
         /\ UNCHANGED <<characters, encDb, manager>>
    ELSE /\ characters' = SyncHp(characters, manager[s], Len(ParticipantOrder))
         /\ manager' = [manager EXCEPT ![s] = NoEngine]
         /\ lastCall' = [op |-> "end_encounter", session |-> s, ok |-> TRUE,
                         final |-> manager[s].participants,
                         persisted |-> {c \in CharacterIds : characters[c] # NoRow}]
         /\ UNCHANGED encDb

\* load_encounter: always replaces the session's engine by the persisted state
HandleLoadEncounter(s) ==
    IF encDb = NoRow
    THEN /\ lastCall' = OtherCall
         /\ UNCHANGED <<characters, encDb, manager>>
    ELSE /\ manager' = [manager EXCEPT ![s] = LoadState(encDb)]
         /\ lastCall' = [op |-> "load_encounter", session |-> s,
                         before |-> manager[s]]
         /\ UNCHANGED <<characters, encDb>>

(***************************************************************************)
(* Rest tool handlers (server/rest-tools.ts).                              *)
(***************************************************************************)
getAbilityModifier(score) == (score - 10) \div 2

\* healing of the first n hit dice: each max(1, roll + conModifier)
RECURSIVE TotalHealing(_, _, _)
TotalHealing(rolls, n, conModifier) ==
    IF n = 0 THEN 0
    ELSE TotalHealing(rolls, n - 1, conModifier) + Max(1, rolls[n] + conModifier)

\* hp after a short rest: healing capped at maxHp - hp
ShortRestHp(character, rolls, n) ==
    LET totalHealing == TotalHealing(rolls, n, getAbilityModifier(character.con))
        actualHealing == Min(totalHealing, character.maxHp - character.hp)
    IN character.hp + actualHealing

HandleTakeLongRest(c) ==
    LET character == CharFindById(characters, c)
    IN IF character = NoRow
       THEN /\ lastCall' = OtherCall
            /\ UNCHANGED <<characters, encDb, manager>>
       ELSE /\ characters' = CharUpdateHp(characters, c, character.maxHp)
            /\ lastCall' = [op |-> "take_long_rest", characterId |-> c,
                            before |-> character]
            /\ UNCHANGED <<encDb, manager>>

HandleTakeShortRest(c, hitDiceToSpend, rolls) ==
    LET character == CharFindById(characters, c)
    IN IF character = NoRow
       THEN /\ lastCall' = OtherCall
            /\ UNCHANGED <<characters, encDb, manager>>
       ELSE /\ characters' = CharUpdateHp(characters, c,
                                 ShortRestHp(character, rolls, hitDiceToSpend))
            /\ lastCall' = [op |-> "take_short_rest", characterId |-> c,
                            hitDiceToSpend |-> hitDiceToSpend, rolls |-> rolls,
                            before |-> character]
            /\ UNCHANGED <<encDb, manager>>

(***************************************************************************)
(* Theft / fence engine (server/consolidated/theft-manage.ts over          *)
(* storage/repos/theft.repo.ts).                                           *)
(***************************************************************************)
\* ids a caller names as thief, victim, reporter or fence npc
TheftActors == {"ann", "bob"}
TheftItems == {"gem", "ring"}
HeatOrder == <<"burning", "hot", "warm", "cool", "cold">>
HeatLevels == {HeatOrder[i] : i \in 1..Len(HeatOrder)}
\* values tried for daysAdvanced (min 1) and bountyOffered (min 0)
DaysAdvanced == {1, 4}
BountiesOffered == {0, 10}
\* bounty above which report is no longer explored
MaxBounty == 10
\* values tried for a fence's maxHeatLevel and dailyHeatCapacity (min 0,
\* default 100)
MaxHeatLevels == {"hot"}
DailyHeatCapacities == {100}
\* heat already used today from which a further sale is explored
HeatUsedExplored == {0, 60}
\* heat a sale of a record at each level uses of the fence's daily capacity
HEAT_VALUES ==
    [burning |-> 80, hot |-> 60, warm |-> 40, cool |-> 20, cold |-> 5]

\* recordTheft: the record of the item, created burning, unreported, no bounty
RecordTheft(records, itemId, stolenFrom, stolenBy, witnesses) ==
    [records EXCEPT ![itemId] =
        [stolenFrom |-> stolenFrom, stolenBy |-> stolenBy,
         witnesses |-> witnesses, heatLevel |-> "burning",
         reportedToGuards |-> FALSE, bounty |-> 0]]

\* getItemsStolenFrom: the items whose record names the npc as victim
GetItemsStolenFrom(records, npcId) ==
    {i \in TheftItems : records[i] # NoRow /\ records[i].stolenFrom = npcId}

\* registerFence: the fence row of the npc, with nothing used of its capacity
RegisterFence(fs, npcId, maxHeatLevel, dailyHeatCapacity) ==
    [fs EXCEPT ![npcId] = [maxHeatLevel |-> maxHeatLevel,
                           dailyHeatCapacity |-> dailyHeatCapacity,
                           dailyHeatUsed |-> 0]]

\* reportToGuards: flag the record and add the bounty offered
ReportToGuards(records, itemId, bountyOffered) ==
    [records EXCEPT ![itemId].reportedToGuards = TRUE,
                    ![itemId].bounty = @ + bountyOffered]

HeatIndex(heat) == IndexOf(HeatOrder, heat, 1) + 1

\* processHeatDecay: every record cools one step per day, down to cold
ProcessHeatDecay(records, days) ==
    [i \in TheftItems |->
        IF records[i] = NoRow THEN NoRow
        ELSE [records[i] EXCEPT !.heatLevel =
                HeatOrder[Min(Len(HeatOrder), HeatIndex(@) + days)]]]

\* resetFenceDailyCapacity: every fence starts the day with nothing used
ResetFenceDailyCapacity(fs) ==
    [n \in TheftActors |->
        IF fs[n] = NoRow THEN NoRow ELSE [fs[n] EXCEPT !.dailyHeatUsed = 0]]

\* steal as it would be without the self-theft check
HandleStealUnchecked(thiefId, victimId, itemId, witnesses) ==
    /\ theftRecords' = RecordTheft(theftRecords, itemId, victimId, thiefId,
                                     witnesses)
    /\ lastTheft' = [op |-> "steal", ok |-> TRUE, thiefId |-> thiefId,
                     victimId |-> victimId, itemId |-> itemId,
                     recordsChanged |-> theftRecords' # theftRecords]
    /\ UNCHANGED fences

\* steal: self-theft is refused, otherwise the theft is recorded
HandleSteal(thiefId, victimId, itemId, witnesses) ==
    IF thiefId = victimId
    THEN /\ lastTheft' = [op |-> "steal", ok |-> FALSE, thiefId |-> thiefId,
                          victimId |-> victimId, itemId |-> itemId,
                          recordsChanged |-> FALSE]
         /\ UNCHANGED <<theftRecords, fences>>
    ELSE /\ theftRecords' = RecordTheft(theftRecords, itemId, victimId, thiefId,
                                     witnesses)
         /\ lastTheft' = [op |-> "steal", ok |-> TRUE, thiefId |-> thiefId,
                          victimId |-> victimId, itemId |-> itemId,
                          recordsChanged |-> theftRecords' # theftRecords]
         /\ UNCHANGED fences

\* register_fence: refused for an npc some recorded item was stolen from
HandleRegisterFence(npcId, maxHeatLevel, dailyHeatCapacity) ==
    IF GetItemsStolenFrom(theftRecords, npcId) # {}
    THEN /\ lastTheft' = [op |-> "register_fence", ok |-> FALSE, npcId |-> npcId,
                          fencesChanged |-> FALSE]
         /\ UNCHANGED <<theftRecords, fences>>
    ELSE /\ fences' = RegisterFence(fences, npcId, maxHeatLevel,
                                    dailyHeatCapacity)
         /\ lastTheft' = [op |-> "register_fence", ok |-> TRUE, npcId |-> npcId,
                          fencesChanged |-> fences' # fences]
         /\ UNCHANGED theftRecords

\* report: needs a record of the item
HandleReport(itemId, bountyOffered) ==
    IF theftRecords[itemId] = NoRow
    THEN /\ lastTheft' = [op |-> "report", ok |-> FALSE]
         /\ UNCHANGED <<theftRecords, fences>>
    ELSE /\ theftRecords[itemId].bounty + bountyOffered <= MaxBounty
         /\ theftRecords' = ReportToGuards(theftRecords, itemId, bountyOffered)
         /\ lastTheft' = [op |-> "report", ok |-> TRUE]
         /\ UNCHANGED fences

\* compareHeatLevels: positive, zero or negative as a is hotter than, as hot
\* as or cooler than b
CompareHeatLevels(a, b) == HeatIndex(b) - HeatIndex(a)

\* canFenceAccept: the npc is a fence, the record is no hotter than the
\* fence's maxHeatLevel, the capacity left today covers the record's heat
\* value, and the item is not under cooldown
CanFenceAccept(fs, fenceId, record, underCooldown) ==
    /\ fs[fenceId] # NoRow
    /\ CompareHeatLevels(record.heatLevel, fs[fenceId].maxHeatLevel) <= 0
    /\ fs[fenceId].dailyHeatCapacity - fs[fenceId].dailyHeatUsed
         >= HEAT_VALUES[record.heatLevel]
    /\ ~underCooldown

\* recordFenceTransaction: the sale uses the heat value of the fence's day
RecordFenceTransaction(fs, fenceId, heatLevel) ==
    IF fs[fenceId] = NoRow THEN fs
    ELSE [fs EXCEPT ![fenceId].dailyHeatUsed = @ + HEAT_VALUES[heatLevel]]

\* the observation a sell call leaves: the record and the fence row it
\* found, and whether any row of either table changed
SellCall(fenceId, itemId, underCooldown, ok) ==
    [op |-> "sell", ok |-> ok, fenceId |-> fenceId, itemId |-> itemId,
     underCooldown |-> underCooldown, record |-> theftRecords[itemId],
     fence |-> fences[fenceId],
     recordsChanged |-> theftRecords' # theftRecords,
     othersChanged |->
        \E n \in TheftActors \ {fenceId} : fences'[n] # fences[n],
     fenceChanged |-> fences'[fenceId] # fences[fenceId]]

\* sell as it would be if the fence were never asked whether it accepts
HandleSellUnchecked(fenceId, itemId, underCooldown) ==
    IF theftRecords[itemId] = NoRow
    THEN /\ UNCHANGED <<theftRecords, fences>>
         /\ lastTheft' = SellCall(fenceId, itemId, underCooldown, FALSE)
    ELSE /\ fences' = RecordFenceTransaction(fences, fenceId,
                                             theftRecords[itemId].heatLevel)
         /\ UNCHANGED theftRecords
         /\ lastTheft' = SellCall(fenceId, itemId, underCooldown, TRUE)

\* sell: needs a record of the item and a fence that accepts it; the sale is
\* then recorded against the fence's daily capacity
HandleSell(fenceId, itemId, underCooldown) ==
    IF theftRecords[itemId] = NoRow
    THEN /\ UNCHANGED <<theftRecords, fences>>
         /\ lastTheft' = SellCall(fenceId, itemId, underCooldown, FALSE)
    ELSE IF ~CanFenceAccept(fences, fenceId, theftRecords[itemId],
                            underCooldown)
    THEN /\ UNCHANGED <<theftRecords, fences>>
         /\ lastTheft' = SellCall(fenceId, itemId, underCooldown, FALSE)
    ELSE /\ fences' = RecordFenceTransaction(fences, fenceId,
                                             theftRecords[itemId].heatLevel)
         /\ UNCHANGED theftRecords
         /\ lastTheft' = SellCall(fenceId, itemId, underCooldown, TRUE)

\* values tried for the roll Math.random() * 100, in tenths of a percent so
\* that bounty / 10 stays exact, and bounties a reported record holds
RecognizeRolls == {0, 49, 50, 809, 810, 999}
RecognizeBounties == {0, 10, 300}
\* who saw a theft: nobody, or both the victim and a bystander
WitnessSets == {{}, {"ann", "bob"}}

\* recognize as it would be if a roll equal to the chance were recognised
HandleRecognizeTieRecognises(npcId, itemId, roll) ==
    LET record == theftRecords[itemId]
        recognitionChance ==
            Min(1000, HEAT_VALUES[record.heatLevel] * 10 + record.bounty)
        call == [op |-> "recognize", ok |-> TRUE, npcId |-> npcId,
                 itemId |-> itemId, roll |-> roll,
                 before |-> <<theftRecords, fences>>]
    IN  /\ UNCHANGED <<theftRecords, fences>>
        /\ lastTheft' =
             IF record = NoRow
             THEN call @@ [recognized |-> FALSE, reaction |-> "none"]
             ELSE IF npcId = record.stolenFrom
             THEN call @@ [recognized |-> TRUE, reaction |-> "hostile"]
             ELSE IF npcId \in record.witnesses
             THEN call @@ [recognized |-> TRUE, reaction |-> "suspicious"]
             ELSE IF roll <= recognitionChance
             THEN call @@ [recognized |-> TRUE, reaction |-> "suspicious"]
             ELSE call @@ [recognized |-> FALSE, reaction |-> "none"]

\* recognize: the original owner always, a witness always, anyone else when
\* the roll is below the chance the record's heat and bounty give
HandleRecognize(npcId, itemId, roll) ==
    LET record == theftRecords[itemId]
        recognitionChance ==
            Min(1000, HEAT_VALUES[record.heatLevel] * 10 + record.bounty)
        call == [op |-> "recognize", ok |-> TRUE, npcId |-> npcId,
                 itemId |-> itemId, roll |-> roll,
                 before |-> <<theftRecords, fences>>]
    IN  /\ UNCHANGED <<theftRecords, fences>>
        /\ lastTheft' =
             IF record = NoRow
             THEN call @@ [recognized |-> FALSE, reaction |-> "none"]
             ELSE IF npcId = record.stolenFrom
             THEN call @@ [recognized |-> TRUE, reaction |-> "hostile"]
             ELSE IF npcId \in record.witnesses
             THEN call @@ [recognized |-> TRUE, reaction |-> "suspicious"]
             ELSE IF roll < recognitionChance
             THEN call @@ [recognized |-> TRUE, reaction |-> "suspicious"]
             ELSE call @@ [recognized |-> FALSE, reaction |-> "none"]

\* decay as it would be if it always advanced a single day
HandleDecayOneDay(daysAdvanced) ==
    /\ theftRecords' = ProcessHeatDecay(theftRecords, 1)
    /\ fences' = ResetFenceDailyCapacity(fences)
    /\ lastTheft' = [op |-> "decay", ok |-> TRUE, daysAdvanced |-> daysAdvanced,
                     before |-> theftRecords]

\* decay: cool every record, then reset the fences' daily capacity
HandleDecay(daysAdvanced) ==
    /\ theftRecords' = ProcessHeatDecay(theftRecords, daysAdvanced)
    /\ fences' = ResetFenceDailyCapacity(fences)
    /\ lastTheft' = [op |-> "decay", ok |-> TRUE, daysAdvanced |-> daysAdvanced,
                     before |-> theftRecords]

(***************************************************************************)
(* Action router of the consolidated tools (utils/action-router.js,         *)
(* utils/fuzzy-enum.js) with the action and alias tables of theft_manage,   *)
(* improvisation_manage and batch_manage.                                   *)
(***************************************************************************)
\* the canonical actions of each tool, in declaration order
THEFT_ACTIONS ==
    <<"steal", "check", "search", "recognize", "sell", "register_fence",
      "report", "decay", "get_fence", "list_fences">>
IMPROVISATION_ACTIONS ==
    <<"stunt", "apply_effect", "get_effects", "remove_effect",
      "process_triggers", "advance_durations", "synthesize",
      "get_spellbook">>
BATCH_ACTIONS ==
    <<"create_characters", "create_npcs", "distribute_items",
      "execute_workflow", "list_templates", "get_template">>

\* theft_manage aliases as they would be if 'fence' named get_fence
TheftAliasesFenceIsGetFence ==
    <<<<"record_theft", "steal">>, <<"thieve", "steal">>,
      <<"check_stolen", "check">>, <<"provenance", "check">>,
      <<"frisk", "search">>, <<"check_character", "search">>,
      <<"identify", "recognize">>, <<"spot", "recognize">>,
      <<"fence", "get_fence">>, <<"sell_to_fence", "sell">>,
      <<"add_fence", "register_fence">>,
      <<"create_fence", "register_fence">>, <<"report_theft", "report">>,
      <<"alert_guards", "report">>, <<"advance_time", "decay">>,
      <<"heat_decay", "decay">>, <<"fence_info", "get_fence">>,
      <<"fences", "list_fences">>, <<"all_fences", "list_fences">>>>

\* the declared aliases of each tool: <<alias, action>>, in declaration order
TheftAliases ==
    <<<<"record_theft", "steal">>, <<"thieve", "steal">>,
      <<"check_stolen", "check">>, <<"provenance", "check">>,
      <<"frisk", "search">>, <<"check_character", "search">>,
      <<"identify", "recognize">>, <<"spot", "recognize">>,
      <<"fence", "sell">>, <<"sell_to_fence", "sell">>,
      <<"add_fence", "register_fence">>,
      <<"create_fence", "register_fence">>, <<"report_theft", "report">>,
      <<"alert_guards", "report">>, <<"advance_time", "decay">>,
      <<"heat_decay", "decay">>, <<"fence_info", "get_fence">>,
      <<"fences", "list_fences">>, <<"all_fences", "list_fences">>>>


ImprovisationAliases ==
    <<<<"resolve_stunt", "stunt">>, <<"rule_of_cool", "stunt">>,
      <<"improvise", "stunt">>, <<"add_effect", "apply_effect">>,
      <<"boon", "apply_effect">>, <<"curse", "apply_effect">>,
      <<"list_effects", "get_effects">>, <<"effects", "get_effects">>,
      <<"delete_effect", "remove_effect">>, <<"dispel", "remove_effect">>,
      <<"fire_triggers", "process_triggers">>,
      <<"triggers", "process_triggers">>,
      <<"tick_effects", "advance_durations">>,
      <<"advance", "advance_durations">>,
      <<"arcane_synthesis", "synthesize">>,
      <<"create_spell", "synthesize">>,
      <<"synthesized_spells", "get_spellbook">>,
      <<"spellbook", "get_spellbook">>>>


BATCH_ALIASES ==
    <<<<"characters", "create_characters">>,
      <<"batch_characters", "create_characters">>,
      <<"create_party", "create_characters">>,
      <<"spawn_characters", "create_characters">>,
      <<"npcs", "create_npcs">>, <<"batch_npcs", "create_npcs">>,
      <<"populate", "create_npcs">>, <<"spawn_npcs", "create_npcs">>,
      <<"distribute", "distribute_items">>,
      <<"give_items", "distribute_items">>,
      <<"equip_all", "distribute_items">>,
      <<"batch_items", "distribute_items">>,
      <<"workflow", "execute_workflow">>,
      <<"execute", "execute_workflow">>,
      <<"run_workflow", "execute_workflow">>,
      <<"run", "execute_workflow">>, <<"templates", "list_templates">>,
      <<"list_workflows", "list_templates">>,
      <<"available", "list_templates">>, <<"template", "get_template">>,
      <<"get_workflow", "get_template">>,
      <<"show_template", "get_template">>>>

\* action strings a caller supplies: canonical names, aliases, misspellings
\* and unrelated words
TheftActionInputs ==
    {"steal", "sell", "fence", "sel", "stl", "xyz", "register_fence",
     "decay", "report", "fences", "get_fenc"}
ImprovisationActionInputs ==
    {"stunt", "boon", "stnt", "bone", "zzz"}
BatchActionInputs ==
    {"create_npcs", "run", "rum", "templats", "xyz"}
\* the characters of every action string, alias and input
Characters ==
    [steal |-> <<"s", "t", "e", "a", "l">>,
     check |-> <<"c", "h", "e", "c", "k">>,
     search |-> <<"s", "e", "a", "r", "c", "h">>,
     recognize |-> <<"r", "e", "c", "o", "g", "n", "i", "z", "e">>,
     sell |-> <<"s", "e", "l", "l">>,
     register_fence |-> <<"r", "e", "g", "i", "s", "t", "e", "r", "_", "f", "e", "n", "c", "e">>,
     report |-> <<"r", "e", "p", "o", "r", "t">>,
     decay |-> <<"d", "e", "c", "a", "y">>,
     get_fence |-> <<"g", "e", "t", "_", "f", "e", "n", "c", "e">>,
     list_fences |-> <<"l", "i", "s", "t", "_", "f", "e", "n", "c", "e", "s">>,
     record_theft |-> <<"r", "e", "c", "o", "r", "d", "_", "t", "h", "e", "f", "t">>,
     thieve |-> <<"t", "h", "i", "e", "v", "e">>,
     check_stolen |-> <<"c", "h", "e", "c", "k", "_", "s", "t", "o", "l", "e", "n">>,
     provenance |-> <<"p", "r", "o", "v", "e", "n", "a", "n", "c", "e">>,
     frisk |-> <<"f", "r", "i", "s", "k">>,
     check_character |-> <<"c", "h", "e", "c", "k", "_", "c", "h", "a", "r", "a", "c", "t", "e", "r">>,
     identify |-> <<"i", "d", "e", "n", "t", "i", "f", "y">>,
     spot |-> <<"s", "p", "o", "t">>,
     fence |-> <<"f", "e", "n", "c", "e">>,
     sell_to_fence |-> <<"s", "e", "l", "l", "_", "t", "o", "_", "f", "e", "n", "c", "e">>,
     add_fence |-> <<"a", "d", "d", "_", "f", "e", "n", "c", "e">>,
     create_fence |-> <<"c", "r", "e", "a", "t", "e", "_", "f", "e", "n", "c", "e">>,
     report_theft |-> <<"r", "e", "p", "o", "r", "t", "_", "t", "h", "e", "f", "t">>,
     alert_guards |-> <<"a", "l", "e", "r", "t", "_", "g", "u", "a", "r", "d", "s">>,
     advance_time |-> <<"a", "d", "v", "a", "n", "c", "e", "_", "t", "i", "m", "e">>,
     heat_decay |-> <<"h", "e", "a", "t", "_", "d", "e", "c", "a", "y">>,
     fence_info |-> <<"f", "e", "n", "c", "e", "_", "i", "n", "f", "o">>,
     fences |-> <<"f", "e", "n", "c", "e", "s">>,
     all_fences |-> <<"a", "l", "l", "_", "f", "e", "n", "c", "e", "s">>,
     stunt |-> <<"s", "t", "u", "n", "t">>,
     apply_effect |-> <<"a", "p", "p", "l", "y", "_", "e", "f", "f", "e", "c", "t">>,
     get_effects |-> <<"g", "e", "t", "_", "e", "f", "f", "e", "c", "t", "s">>,
     remove_effect |-> <<"r", "e", "m", "o", "v", "e", "_", "e", "f", "f", "e", "c", "t">>,
     process_triggers |-> <<"p", "r", "o", "c", "e", "s", "s", "_", "t", "r", "i", "g", "g", "e", "r", "s">>,
     advance_durations |-> <<"a", "d", "v", "a", "n", "c", "e", "_", "d", "u", "r", "a", "t", "i", "o", "n", "s">>,
     synthesize |-> <<"s", "y", "n", "t", "h", "e", "s", "i", "z", "e">>,
     get_spellbook |-> <<"g", "e", "t", "_", "s", "p", "e", "l", "l", "b", "o", "o", "k">>,
     resolve_stunt |-> <<"r", "e", "s", "o", "l", "v", "e", "_", "s", "t", "u", "n", "t">>,
     rule_of_cool |-> <<"r", "u", "l", "e", "_", "o", "f", "_", "c", "o", "o", "l">>,
     improvise |-> <<"i", "m", "p", "r", "o", "v", "i", "s", "e">>,
     add_effect |-> <<"a", "d", "d", "_", "e", "f", "f", "e", "c", "t">>,
     boon |-> <<"b", "o", "o", "n">>,
     curse |-> <<"c", "u", "r", "s", "e">>,
     list_effects |-> <<"l", "i", "s", "t", "_", "e", "f", "f", "e", "c", "t", "s">>,
     effects |-> <<"e", "f", "f", "e", "c", "t", "s">>,
     delete_effect |-> <<"d", "e", "l", "e", "t", "e", "_", "e", "f", "f", "e", "c", "t">>,
     dispel |-> <<"d", "i", "s", "p", "e", "l">>,
     fire_triggers |-> <<"f", "i", "r", "e", "_", "t", "r", "i", "g", "g", "e", "r", "s">>,
     triggers |-> <<"t", "r", "i", "g", "g", "e", "r", "s">>,
     tick_effects |-> <<"t", "i", "c", "k", "_", "e", "f", "f", "e", "c", "t", "s">>,
     advance |-> <<"a", "d", "v", "a", "n", "c", "e">>,
     arcane_synthesis |-> <<"a", "r", "c", "a", "n", "e", "_", "s", "y", "n", "t", "h", "e", "s", "i", "s">>,
     create_spell |-> <<"c", "r", "e", "a", "t", "e", "_", "s", "p", "e", "l", "l">>,
     synthesized_spells |-> <<"s", "y", "n", "t", "h", "e", "s", "i", "z", "e", "d", "_", "s", "p", "e", "l", "l", "s">>,
     spellbook |-> <<"s", "p", "e", "l", "l", "b", "o", "o", "k">>,
     create_characters |-> <<"c", "r", "e", "a", "t", "e", "_", "c", "h", "a", "r", "a", "c", "t", "e", "r", "s">>,
     create_npcs |-> <<"c", "r", "e", "a", "t", "e", "_", "n", "p", "c", "s">>,
     distribute_items |-> <<"d", "i", "s", "t", "r", "i", "b", "u", "t", "e", "_", "i", "t", "e", "m", "s">>,
     execute_workflow |-> <<"e", "x", "e", "c", "u", "t", "e", "_", "w", "o", "r", "k", "f", "l", "o", "w">>,
     list_templates |-> <<"l", "i", "s", "t", "_", "t", "e", "m", "p", "l", "a", "t", "e", "s">>,
     get_template |-> <<"g", "e", "t", "_", "t", "e", "m", "p", "l", "a", "t", "e">>,
     characters |-> <<"c", "h", "a", "r", "a", "c", "t", "e", "r", "s">>,
     batch_characters |-> <<"b", "a", "t", "c", "h", "_", "c", "h", "a", "r", "a", "c", "t", "e", "r", "s">>,
     create_party |-> <<"c", "r", "e", "a", "t", "e", "_", "p", "a", "r", "t", "y">>,
     spawn_characters |-> <<"s", "p", "a", "w", "n", "_", "c", "h", "a", "r", "a", "c", "t", "e", "r", "s">>,
     npcs |-> <<"n", "p", "c", "s">>,
     batch_npcs |-> <<"b", "a", "t", "c", "h", "_", "n", "p", "c", "s">>,
     populate |-> <<"p", "o", "p", "u", "l", "a", "t", "e">>,
     spawn_npcs |-> <<"s", "p", "a", "w", "n", "_", "n", "p", "c", "s">>,
     distribute |-> <<"d", "i", "s", "t", "r", "i", "b", "u", "t", "e">>,
     give_items |-> <<"g", "i", "v", "e", "_", "i", "t", "e", "m", "s">>,
     equip_all |-> <<"e", "q", "u", "i", "p", "_", "a", "l", "l">>,
     batch_items |-> <<"b", "a", "t", "c", "h", "_", "i", "t", "e", "m", "s">>,
     workflow |-> <<"w", "o", "r", "k", "f", "l", "o", "w">>,
     execute |-> <<"e", "x", "e", "c", "u", "t", "e">>,
     run_workflow |-> <<"r", "u", "n", "_", "w", "o", "r", "k", "f", "l", "o", "w">>,
     run |-> <<"r", "u", "n">>,
     templates |-> <<"t", "e", "m", "p", "l", "a", "t", "e", "s">>,
     list_workflows |-> <<"l", "i", "s", "t", "_", "w", "o", "r", "k", "f", "l", "o", "w", "s">>,
     available |-> <<"a", "v", "a", "i", "l", "a", "b", "l", "e">>,
     template |-> <<"t", "e", "m", "p", "l", "a", "t", "e">>,
     get_workflow |-> <<"g", "e", "t", "_", "w", "o", "r", "k", "f", "l", "o", "w">>,
     show_template |-> <<"s", "h", "o", "w", "_", "t", "e", "m", "p", "l", "a", "t", "e">>,
     sel |-> <<"s", "e", "l">>, stl |-> <<"s", "t", "l">>,
     xyz |-> <<"x", "y", "z">>,
     get_fenc |-> <<"g", "e", "t", "_", "f", "e", "n", "c">>,
     stnt |-> <<"s", "t", "n", "t">>, bone |-> <<"b", "o", "n", "e">>,
     zzz |-> <<"z", "z", "z">>, rum |-> <<"r", "u", "m">>,
     templats |-> <<"t", "e", "m", "p", "l", "a", "t", "s">>]

\* similarity below which no fuzzy match is made: 0.6, as a ratio
Threshold == <<6, 10>>

\* one row of the edit-distance table, from the row above it
RECURSIVE NextRow(_, _, _, _)
NextRow(prev, ch, b, row) ==
    IF Len(row) = Len(b) + 1 THEN row
    ELSE LET j == Len(row)
             substitution == prev[j] + (IF ch = b[j] THEN 0 ELSE 1)
         IN  NextRow(prev, ch, b,
                     Append(row, Min(Min(prev[j + 1] + 1, row[j] + 1),
                                     substitution)))

RECURSIVE LevenshteinRows(_, _, _, _)
LevenshteinRows(a, b, i, prev) ==
    IF i > Len(a) THEN prev[Len(b) + 1]
    ELSE LevenshteinRows(a, b, i + 1, NextRow(prev, a[i], b, <<prev[1] + 1>>))

\* edit distance of two names: insertions, deletions and substitutions
Levenshtein(a, b) ==
    LevenshteinRows(Characters[a], Characters[b], 1,
                    [j \in 1..(Len(Characters[b]) + 1) |-> j - 1])

\* normalised similarity 1 - distance / longer length, as <<numerator,
\* denominator>>
Similarity(a, b) ==
    LET longer == Max(Len(Characters[a]), Len(Characters[b]))
    IN  <<longer - Levenshtein(a, b), longer>>

\* the similarity of every action string tried with every declared name
SimilarityTable ==
    [a \in TheftActionInputs \cup ImprovisationActionInputs
            \cup BatchActionInputs |->
        [n \in DOMAIN Characters |-> Similarity(a, n)]]

\* s >= t for two ratios
AtLeast(s, t) == s[1] * t[2] >= t[1] * s[2]

\* what an action string is compared with: every canonical action, then
\* every alias, each with the action it stands for
Candidates(actions, aliases) ==
    [k \in 1..Len(actions) |-> [value |-> actions[k], action |-> actions[k]]]
    \o [k \in 1..Len(aliases) |->
            [value |-> aliases[k][1], action |-> aliases[k][2]]]

\* the first candidate no other candidate is more similar to the string than
BestCandidate(input, candidates) ==
    LET similar(k) == Similarity(input, candidates[k].value)
    IN  CHOOSE k \in 1..Len(candidates) :
            /\ \A h \in 1..Len(candidates) : AtLeast(similar(k), similar(h))
            /\ \A h \in 1..(k - 1) : ~AtLeast(similar(h), similar(k))

\* matchAction: the canonical action itself, else the action of the alias,
\* else the action of the most similar candidate when that reaches the
\* threshold, else a guiding error with the available actions and the
\* nearest candidate as suggestion
MatchAction(input, actions, aliases) ==
    LET candidates == Candidates(actions, aliases)
        best == candidates[BestCandidate(input, candidates)]
        none == [error |-> FALSE, matched |-> "none", matchType |-> "none",
                 availableActions |-> <<>>, suggestions |-> <<>>]
    IN  IF \E k \in 1..Len(actions) : actions[k] = input
        THEN [none EXCEPT !.matched = input, !.matchType = "exact"]
        ELSE IF \E k \in 1..Len(aliases) : aliases[k][1] = input
        THEN [none EXCEPT
                !.matched =
                    aliases[CHOOSE k \in 1..Len(aliases) :
                                /\ aliases[k][1] = input
                                /\ \A h \in 1..(k - 1) : aliases[h][1] # input][2],
                !.matchType = "alias"]
        ELSE IF AtLeast(Similarity(input, best.value), Threshold)
        THEN [none EXCEPT !.matched = best.action, !.matchType = "fuzzy"]
        ELSE [none EXCEPT
                !.error = TRUE,
                !.availableActions = actions,
                !.suggestions =
                    <<[value |-> best.value,
                       similarity |-> Similarity(input, best.value)]>>]

IsGuidingError(result) == result.error

\* the resolution of every action string tried, per tool
TheftRoutes ==
    [a \in TheftActionInputs |-> MatchAction(a, THEFT_ACTIONS, TheftAliases)]
ImprovisationRoutes ==
    [a \in ImprovisationActionInputs |->
        MatchAction(a, IMPROVISATION_ACTIONS, ImprovisationAliases)]
BatchRoutes ==
    [a \in BatchActionInputs |-> MatchAction(a, BATCH_ACTIONS, BATCH_ALIASES)]

\* no consolidated tool has been called yet
NoRoute ==
    [tool |-> "none", action |-> "none", result |-> [error |-> FALSE],
     handler |-> "none", changed |-> FALSE]

\* the observation a consolidated tool call leaves: the router's result, the
\* sub-handler invoked and whether a theft table changed
RouteCall(tool, action, result, handler) ==
    [tool |-> tool, action |-> action, result |-> result, handler |-> handler,
     changed |-> <<theftRecords', fences'>> # <<theftRecords, fences>>]

\* check, search, recognize, get_fence, list_fences: lookups only
HandleLookup(op) ==
    /\ UNCHANGED <<theftRecords, fences>>
    /\ lastTheft' = [op |-> op, ok |-> TRUE]

\* the sub-handler of a theft_manage action, on the payload of the call
TheftHandler(action, p) ==
    CASE action = "steal" ->
            HandleSteal(p.thiefId, p.victimId, p.itemId, p.witnesses)
      [] action = "sell" -> HandleSell(p.fenceId, p.itemId, p.underCooldown)
      [] action = "register_fence" ->
            HandleRegisterFence(p.npcId, p.maxHeatLevel, p.dailyHeatCapacity)
      [] action = "report" -> HandleReport(p.itemId, p.bountyOffered)
      [] action = "decay" -> HandleDecay(p.daysAdvanced)
      [] OTHER -> HandleLookup(action)

\* payloads tried with theft_manage
TheftPayloads ==
    [thiefId : {"ann"}, victimId : {"bob"}, itemId : {"gem"},
     witnesses : {{}},
     fenceId : {"ann"}, underCooldown : {FALSE}, npcId : {"ann"},
     maxHeatLevel : MaxHeatLevels, dailyHeatCapacity : DailyHeatCapacities,
     bountyOffered : {10}, daysAdvanced : DaysAdvanced]

\* theft_manage as it would be if an unmatched action ran the handler of the
\* nearest suggestion
HandleTheftManageRunsNearest(action, p) ==
    LET result == TheftRoutes[action]
        nearest ==
            Candidates(THEFT_ACTIONS, TheftAliases)[
                BestCandidate(action,
                              Candidates(THEFT_ACTIONS, TheftAliases))].action
    IN  IF IsGuidingError(result)
        THEN /\ TheftHandler(nearest, p)
             /\ lastRoute' = RouteCall("theft_manage", action, result, nearest)
        ELSE /\ TheftHandler(result.matched, p)
             /\ lastRoute' =
                  RouteCall("theft_manage", action, result, result.matched)

\* theft_manage: the router resolves the action; a guiding error is returned
\* as it is, otherwise the sub-handler of the matched action runs
HandleTheftManage(action, p) ==
    LET result == TheftRoutes[action]
    IN  IF IsGuidingError(result)
        THEN /\ UNCHANGED <<theftRecords, fences, lastTheft>>
             /\ lastRoute' = RouteCall("theft_manage", action, result, "none")
        ELSE /\ TheftHandler(result.matched, p)
             /\ lastRoute' =
                  RouteCall("theft_manage", action, result, result.matched)

\* improvisation_manage: as theft_manage, over its own actions; the effects
\* of its sub-handlers are outside the model
HandleImprovisationManage(action) ==
    LET result == ImprovisationRoutes[action]
    IN  /\ UNCHANGED <<theftRecords, fences, lastTheft>>
        /\ lastRoute' =
             RouteCall("improvisation_manage", action, result,
                       IF IsGuidingError(result) THEN "none"
                       ELSE result.matched)

\* batch_manage: matchAction, then the guiding error or the switch on the
\* matched action; the effects of its sub-handlers are outside the model
HandleBatchManage(action) ==
    LET matchResult == BatchRoutes[action]
    IN  /\ UNCHANGED <<theftRecords, fences, lastTheft>>
        /\ lastRoute' =
             RouteCall("batch_manage", action, matchResult,
                       IF IsGuidingError(matchResult) THEN "none"
                       ELSE matchResult.matched)

(***************************************************************************)
(* InventoryRepository (storage/repos/inventory.repo.ts) over the          *)
(* inventory_items table (storage/migrations.ts).                          *)
(***************************************************************************)
\* rows of the items table; "relic" is an item id no row exists for
ItemsTable == {"sword", "shield"}
InventoryItemIds == {"sword", "shield", "relic"}
\* slot names tried
Slots == {"mainhand"}
\* SQL NULL in the slot column
Null == "NULL"
\* largest quantity a stack is followed to
MaxQuantity == 2
\* quantity arguments tried: the repository takes any number, 0 included
Quantities == {0, 1, 2}
QuantityExplored(n) == n \in 0..MaxQuantity

\* SELECT quantity: the quantity of the row, none (0) without a row
Quantity(inv, characterId, itemId) ==
    IF inv[characterId][itemId] = NoRow THEN 0 ELSE inv[characterId][itemId].quantity

\* the INSERT violates a foreign key: no such item or no such character
InsertFails(characterId, itemId) ==
    itemId \notin ItemsTable \/ CharFindById(characters, characterId) = NoRow

\* InventoryRepository.addItem: insert the row (quantity given, equipped 0,
\* slot NULL) or add to the quantity of the existing row; a failing insert
\* throws and writes nothing
AddItem(inv, characterId, itemId, quantity) ==
    IF inv[characterId][itemId] # NoRow
    THEN [inv EXCEPT ![characterId][itemId].quantity = @ + quantity]
    ELSE IF InsertFails(characterId, itemId) THEN inv
    ELSE [inv EXCEPT ![characterId][itemId] =
            [quantity |-> quantity, equipped |-> FALSE, slot |-> Null]]

\* the row is deleted when the quantity taken is all of it, else decremented
TakeFromRow(inv, characterId, itemId, quantity) ==
    IF inv[characterId][itemId].quantity = quantity
    THEN [inv EXCEPT ![characterId][itemId] = NoRow]
    ELSE [inv EXCEPT ![characterId][itemId].quantity = @ - quantity]

\* InventoryRepository.removeItem: its return value and the table after it
RemoveItemOk(inv, characterId, itemId, quantity) ==
    inv[characterId][itemId] # NoRow /\ ~(inv[characterId][itemId].quantity < quantity)

RemoveItem(inv, characterId, itemId, quantity) ==
    IF RemoveItemOk(inv, characterId, itemId, quantity)
    THEN TakeFromRow(inv, characterId, itemId, quantity)
    ELSE inv

\* UPDATE ... SET equipped = 0, slot = NULL WHERE character_id = ? AND slot = ?
UnequipSlot(inv, characterId, slot) ==
    [inv EXCEPT ![characterId] =
        [i \in InventoryItemIds |->
            IF @[i] # NoRow /\ @[i].slot = slot
            THEN [@[i] EXCEPT !.equipped = FALSE, !.slot = Null]
            ELSE @[i]]]

\* equipItem as it would be without first emptying the slot
EquipItemKeepsSlot(inv, characterId, itemId, slot) ==
    IF inv[characterId][itemId] = NoRow THEN inv
    ELSE [inv EXCEPT ![characterId][itemId].equipped = TRUE,
                     ![characterId][itemId].slot = slot]

\* InventoryRepository.equipItem: empty the slot, then equip the item's row
EquipItem(inv, characterId, itemId, slot) ==
    LET freed == UnequipSlot(inv, characterId, slot)
    IN IF freed[characterId][itemId] = NoRow THEN freed
       ELSE [freed EXCEPT ![characterId][itemId].equipped = TRUE,
                          ![characterId][itemId].slot = slot]

\* InventoryRepository.unequipItem
UnequipItem(inv, characterId, itemId) ==
    IF inv[characterId][itemId] = NoRow THEN inv
    ELSE [inv EXCEPT ![characterId][itemId].equipped = FALSE,
                     ![characterId][itemId].slot = Null]

\* transferItem as it would be if it moved an equipped stack too
TransferItemOkIgnoresEquipped(inv, fromCharacterId, itemId, quantity) ==
    /\ inv[fromCharacterId][itemId] # NoRow
    /\ ~(inv[fromCharacterId][itemId].quantity < quantity)

\* InventoryRepository.transferItem: the checks before the transaction
TransferItemOk(inv, fromCharacterId, itemId, quantity) ==
    /\ inv[fromCharacterId][itemId] # NoRow
    /\ ~(inv[fromCharacterId][itemId].quantity < quantity)
    /\ ~inv[fromCharacterId][itemId].equipped

\* the transaction: take from the source, insert-or-add at the destination;
\* a failing insert rolls the transaction back
TransferItem(inv, fromCharacterId, toCharacterId, itemId, quantity) ==
    LET taken == TakeFromRow(inv, fromCharacterId, itemId, quantity)
    IN IF ~TransferItemOk(inv, fromCharacterId, itemId, quantity) THEN inv
       ELSE IF taken[toCharacterId][itemId] = NoRow /\ InsertFails(toCharacterId, itemId)
       THEN inv
       ELSE AddItem(taken, toCharacterId, itemId, quantity)

\* total quantity of an item over all characters
TotalQuantity(inv, itemId) ==
    LET order == <<"hero", "goblin">>
        sum[k \in 0..Len(order)] ==
            IF k = 0 THEN 0 ELSE sum[k - 1] + Quantity(inv, order[k], itemId)
    IN sum[Len(order)]

\* the repository calls as steps of the model
OtherInventoryCall == [op |-> "other"]

InventoryExplored(inv) ==
    \A c \in CharacterIds, i \in InventoryItemIds : QuantityExplored(Quantity(inv, c, i))

AddItemStep(characterId, itemId, quantity) ==
    /\ InventoryExplored(AddItem(inventory, characterId, itemId, quantity))
    /\ inventory' = AddItem(inventory, characterId, itemId, quantity)
    /\ lastInv' = OtherInventoryCall

RemoveItemStep(characterId, itemId, quantity) ==
    /\ InventoryExplored(RemoveItem(inventory, characterId, itemId, quantity))
    /\ inventory' = RemoveItem(inventory, characterId, itemId, quantity)
    /\ lastInv' = OtherInventoryCall

EquipItemStep(characterId, itemId, slot) ==
    /\ inventory' = EquipItem(inventory, characterId, itemId, slot)
    /\ lastInv' = [op |-> "equipItem", characterId |-> characterId,
                   itemId |-> itemId, slot |-> slot,
                   displaced |-> \E i \in InventoryItemIds \ {itemId} :
                        /\ inventory[characterId][i] # NoRow
                        /\ inventory[characterId][i].slot = slot]

UnequipItemStep(characterId, itemId) ==
    /\ inventory' = UnequipItem(inventory, characterId, itemId)
    /\ lastInv' = OtherInventoryCall

TransferItemStep(fromCharacterId, toCharacterId, itemId, quantity) ==
    /\ InventoryExplored(TransferItem(inventory, fromCharacterId, toCharacterId,
                                      itemId, quantity))
    /\ inventory' = TransferItem(inventory, fromCharacterId, toCharacterId,
                                 itemId, quantity)
    /\ lastInv' = [op |-> "transferItem",
                   fromCharacterId |-> fromCharacterId,
                   toCharacterId |-> toCharacterId,
                   itemId |-> itemId, quantity |-> quantity,
                   source |-> inventory[fromCharacterId][itemId],
                   destination |-> inventory[toCharacterId][itemId],
                   total |-> TotalQuantity(inventory, itemId),
                   result |-> TransferItemOk(inventory, fromCharacterId, itemId, quantity),
                   changed |-> inventory' # inventory]

(***************************************************************************)
(* Quest engine (server/quest-tools.ts over storage/repos/quest.repo.ts    *)
(* and storage/repos/inventory.repo.ts).                                   *)
(***************************************************************************)
\* quest ids in the order randomUUID hands them out
QuestOrder == <<"q1", "q2">>
QuestIds == {QuestOrder[i] : i \in 1..Len(QuestOrder)}
ObjectiveIds == {"o1", "o2"}
\* item ids a quest names as rewards
RewardItemIds == {"sword", "relic"}
\* largest required count of an objective a caller supplies
MaxRequired == 2
\* values tried for update_objective's progress (min 1)
Progresses == {1, 2}

\* objectives a caller may pass to create_quest: ids o1, o2; current and
\* completed are optional inputs that default to 0 and false
ObjectiveArgs ==
    {<<[id |-> "o1", required |-> r1, current |-> 0, completed |-> d1],
       [id |-> "o2", required |-> 1, current |-> 0, completed |-> FALSE]>> :
     r1 \in 1..MaxRequired, d1 \in BOOLEAN}

\* position of the objective with this id (findIndex), 0 when absent
RECURSIVE ObjectiveIndex(_, _, _)
ObjectiveIndex(objectives, objectiveId, i) ==
    IF i > Len(objectives) THEN 0
    ELSE IF objectives[i].id = objectiveId THEN i
    ELSE ObjectiveIndex(objectives, objectiveId, i + 1)

Includes(list, x) == \E i \in 1..Len(list) : list[i] = x

\* the filter as it would be if it kept every id
WithoutNothing(list, x) == list

\* Array.filter(id => id !== x)
RECURSIVE Without(_, _)
Without(list, x) ==
    IF list = <<>> THEN <<>>
    ELSE IF Head(list) = x THEN Without(Tail(list), x)
    ELSE <<Head(list)>> \o Without(Tail(list), x)

\* QuestRepository.getLog, with the empty log handleAssignQuest starts from
EmptyLog == [activeQuests |-> <<>>, completedQuests |-> <<>>, failedQuests |-> <<>>]

\* QuestRepository.updateObjectiveProgress: add, clamp to required, flag
UpdateObjectiveProgress(quest, k, progress) ==
    LET o == quest.objectives[k]
        current == Min(o.required, o.current + progress)
    IN [quest EXCEPT !.objectives[k].current = current,
                     !.objectives[k].completed = IF current >= o.required THEN TRUE ELSE @]

\* QuestRepository.completeObjective: current becomes required, flag set
CompleteObjective(quest, k) ==
    [quest EXCEPT !.objectives[k].current = quest.objectives[k].required,
                  !.objectives[k].completed = TRUE]

\* quest.objectives.every(o => o.completed)
AllObjectivesCompleted(quest) ==
    \A k \in 1..Len(quest.objectives) : quest.objectives[k].completed

\* the reward loop of complete_quest: addItem(character, item, 1) for each
\* reward item, a failing insert being caught
RECURSIVE GrantItems(_, _, _)
GrantItems(inv, characterId, items) ==
    IF items = <<>> THEN inv
    ELSE GrantItems(AddItem(inv, characterId, Head(items), 1), characterId, Tail(items))

\* the prerequisite loop as it would be if it never found a quest missing
FirstMissingPrerequisiteNone(prerequisites, completed) == NoRow

\* first prerequisite (in list order) missing from the completed quests, or NoRow
RECURSIVE FirstMissingPrerequisite(_, _)
FirstMissingPrerequisite(prerequisites, completed) ==
    IF prerequisites = <<>> THEN NoRow
    ELSE IF ~Includes(completed, Head(prerequisites)) THEN [id |-> Head(prerequisites)]
    ELSE FirstMissingPrerequisite(Tail(prerequisites), completed)

\* whether the call changed any stored quest, quest log or inventory row
QuestStateChanged ==
    quests' # quests \/ questLogs' # questLogs \/ inventory' # inventory

\* a call that threw before it read the quest log (character, quest or
\* objective not found, quest not active for update_objective)
QuestCallNotFound(op) ==
    /\ UNCHANGED <<quests, questLogs, inventory, completions>>
    /\ lastQuest' = [op |-> op, found |-> FALSE, ok |-> FALSE,
                     changed |-> QuestStateChanged]

\* create_quest: fresh id; objectives keep the caller's current and completed
HandleCreateQuest(q, objectives, prerequisites, rewardItems) ==
    /\ quests[q] = NoRow
    /\ \A i \in 1..Len(QuestOrder) :
        QuestOrder[i] = q => \A j \in 1..(i - 1) : quests[QuestOrder[j]] # NoRow
    /\ quests' = [quests EXCEPT ![q] =
            [objectives |-> objectives, prerequisites |-> prerequisites,
             rewardItems |-> rewardItems, status |-> "available"]]
    /\ UNCHANGED <<questLogs, inventory, completions>>
    /\ lastQuest' = [op |-> "create_quest", found |-> TRUE, ok |-> TRUE,
                     changed |-> QuestStateChanged]

\* the log assign_quest works on: the stored one, else a new empty one
LogOrEmpty(c) == IF questLogs[c] = NoRow THEN EmptyLog ELSE questLogs[c]

\* the checks of assign_quest as they would be without the already-completed one
AssignErrorIgnoresCompleted(log, quest, q) ==
    IF Includes(log.activeQuests, q) THEN [kind |-> "already_active"]
    ELSE IF FirstMissingPrerequisite(quest.prerequisites, log.completedQuests) # NoRow
    THEN [kind |-> "prerequisite",
          missing |-> FirstMissingPrerequisite(quest.prerequisites,
                                               log.completedQuests).id]
    ELSE NoRow

\* the error assign_quest throws, in the order of its checks, or NoRow
AssignError(log, quest, q) ==
    IF Includes(log.activeQuests, q) THEN [kind |-> "already_active"]
    ELSE IF Includes(log.completedQuests, q) THEN [kind |-> "already_completed"]
    ELSE IF FirstMissingPrerequisite(quest.prerequisites, log.completedQuests) # NoRow
    THEN [kind |-> "prerequisite",
          missing |-> FirstMissingPrerequisite(quest.prerequisites,
                                               log.completedQuests).id]
    ELSE NoRow

\* assign_quest
HandleAssignQuest(c, q) ==
    IF CharFindById(characters, c) = NoRow \/ quests[q] = NoRow
    THEN QuestCallNotFound("assign_quest")
    ELSE LET log == LogOrEmpty(c)
             error == AssignError(log, quests[q], q)
             call == [op |-> "assign_quest", found |-> TRUE,
                      characterId |-> c, questId |-> q,
                      wasActive |-> Includes(log.activeQuests, q),
                      wasCompleted |-> Includes(log.completedQuests, q),
                      error |-> error]
         IN IF error # NoRow
            THEN /\ UNCHANGED <<quests, questLogs, inventory, completions>>
                 /\ lastQuest' = [ok |-> FALSE, changed |-> QuestStateChanged] @@ call
            ELSE /\ questLogs' = [questLogs EXCEPT ![c] =
                        [log EXCEPT !.activeQuests = Append(@, q)]]
                 /\ UNCHANGED <<quests, inventory, completions>>
                 /\ lastQuest' = [ok |-> TRUE, changed |-> QuestStateChanged] @@ call

\* update_objective
HandleUpdateObjective(c, q, objectiveId, progress) ==
    IF \/ CharFindById(characters, c) = NoRow
       \/ questLogs[c] = NoRow
       \/ ~Includes(questLogs[c].activeQuests, q)
       \/ quests[q] = NoRow
       \/ ObjectiveIndex(quests[q].objectives, objectiveId, 1) = 0
    THEN QuestCallNotFound("update_objective")
    ELSE LET k == ObjectiveIndex(quests[q].objectives, objectiveId, 1)
         IN /\ quests' = [quests EXCEPT ![q] = UpdateObjectiveProgress(@, k, progress)]
            /\ UNCHANGED <<questLogs, inventory, completions>>
            /\ lastQuest' = [op |-> "update_objective", found |-> TRUE, ok |-> TRUE,
                             questId |-> q, index |-> k, progress |-> progress,
                             before |-> quests[q].objectives[k].current,
                             changed |-> QuestStateChanged]

\* complete_objective
HandleCompleteObjective(q, objectiveId) ==
    IF \/ quests[q] = NoRow
       \/ ObjectiveIndex(quests[q].objectives, objectiveId, 1) = 0
    THEN QuestCallNotFound("complete_objective")
    ELSE LET k == ObjectiveIndex(quests[q].objectives, objectiveId, 1)
         IN /\ quests' = [quests EXCEPT ![q] = CompleteObjective(@, k)]
            /\ UNCHANGED <<questLogs, inventory, completions>>
            /\ lastQuest' = [op |-> "complete_objective", found |-> TRUE,
                             ok |-> TRUE, changed |-> QuestStateChanged]

\* the successful part of complete_quest: grant the reward items, move the
\* quest from activeQuests to completedQuests, set the quest's status
CompleteQuestEffects(c, q) ==
    /\ inventory' = GrantItems(inventory, c, quests[q].rewardItems)
    /\ questLogs' = [questLogs EXCEPT ![c] =
            [questLogs[c] EXCEPT !.activeQuests = Without(@, q),
                                 !.completedQuests = Append(@, q)]]
    /\ quests' = [quests EXCEPT ![q].status = "completed"]
    /\ completions' = [completions EXCEPT ![c][q] = @ + 1]

\* what complete_quest sees before it acts
CompleteQuestCall(c, q) ==
    [op |-> "complete_quest", found |-> TRUE, characterId |-> c, questId |-> q,
     wasActive |-> questLogs[c] # NoRow /\ Includes(questLogs[c].activeQuests, q),
     wasCompleted |-> questLogs[c] # NoRow /\ Includes(questLogs[c].completedQuests, q),
     allCompleted |-> AllObjectivesCompleted(quests[q]),
     heldBefore |-> inventory[c]]

\* complete_quest as it would be without the check of the objectives
HandleCompleteQuestIgnoresObjectives(c, q) ==
    IF CharFindById(characters, c) = NoRow \/ quests[q] = NoRow
    THEN QuestCallNotFound("complete_quest")
    ELSE IF ~CompleteQuestCall(c, q).wasActive
    THEN /\ UNCHANGED <<quests, questLogs, inventory, completions>>
         /\ lastQuest' = [ok |-> FALSE, changed |-> QuestStateChanged]
                            @@ CompleteQuestCall(c, q)
    ELSE /\ CompleteQuestEffects(c, q)
         /\ lastQuest' = [ok |-> TRUE, changed |-> QuestStateChanged]
                            @@ CompleteQuestCall(c, q)

\* complete_quest
HandleCompleteQuest(c, q) ==
    IF CharFindById(characters, c) = NoRow \/ quests[q] = NoRow
    THEN QuestCallNotFound("complete_quest")
    ELSE IF ~CompleteQuestCall(c, q).wasActive \/ ~AllObjectivesCompleted(quests[q])
    THEN /\ UNCHANGED <<quests, questLogs, inventory, completions>>
         /\ lastQuest' = [ok |-> FALSE, changed |-> QuestStateChanged]
                            @@ CompleteQuestCall(c, q)
    ELSE /\ CompleteQuestEffects(c, q)
         /\ lastQuest' = [ok |-> TRUE, changed |-> QuestStateChanged]
                            @@ CompleteQuestCall(c, q)

(***************************************************************************)
(* World tools (server/tools.ts): the WorldManager keyed by session, the   *)
(* worlds row and its tile_cache.  A world's content is identified by the  *)
(* number of patch commands applied to it since generation from its seed.  *)
(* The tile_cache column holds <<>> for NULL and <<n>> for the tiles of    *)
(* the world with n commands applied.                                      *)
(***************************************************************************)
\* commands applied to one in-memory world after which patches are no
\* longer explored
MaxApplied == 2
\* scripts tried with apply_map_patch: whether the script parses, how many
\* commands it holds, and the command at which applyPatch throws (one past
\* the last when none does)
PatchScripts ==
    {sc \in [parses : BOOLEAN, commands : 1..2, failsAt : 1..3] :
        /\ sc.failsAt <= sc.commands + 1
        /\ ~sc.parses => (sc.commands = 1 /\ sc.failsAt = 1)}

\* getOrRestoreWorld: the session's world, else one regenerated from the
\* stored seed and kept for the session, else nothing
GetOrRestoreWorld(wm, s) ==
    IF wm[s] # NoEngine THEN wm
    ELSE IF worldDb # NoRow THEN [wm EXCEPT ![s] = [applied |-> 0]]
    ELSE wm

\* generate_world: the world is held for the session, its row is created and
\* its tiles are cached
HandleGenerateWorld(s) ==
    /\ worldDb = NoRow
    /\ worldManager' = [worldManager EXCEPT ![s] = [applied |-> 0]]
    /\ worldDb' = [tileCache |-> <<0>>]
    /\ lastWorld' = [op |-> "generate_world", session |-> s, ok |-> TRUE,
                     before |-> worldManager]

\* apply_map_patch: the commands are applied to the session's world one
\* after the other; the tile cache is invalidated when none of them threw
HandleApplyMapPatch(s, script) ==
    LET restored == GetOrRestoreWorld(worldManager, s)
        applied == IF script.parses
                   THEN Min(script.commands, script.failsAt - 1) ELSE 0
        ok == script.parses /\ script.failsAt = script.commands + 1
        call == [op |-> "apply_map_patch", session |-> s,
                 before |-> worldManager]
    IN  IF restored[s] = NoEngine
        THEN /\ UNCHANGED <<worldManager, worldDb>>
             /\ lastWorld' = call @@ [ok |-> FALSE, modified |-> FALSE]
        ELSE /\ worldManager' = [restored EXCEPT ![s].applied = @ + applied]
             /\ worldDb' = IF ok THEN [worldDb EXCEPT !.tileCache = <<>>]
                           ELSE worldDb
             /\ lastWorld' = call @@ [ok |-> ok, modified |-> applied > 0]

\* get_world_tiles: the cached snapshot when there is one, else the tiles of
\* the session's (restored) world, which are then cached
HandleGetWorldTiles(s) ==
    LET restored == GetOrRestoreWorld(worldManager, s)
        call == [op |-> "get_world_tiles", session |-> s,
                 before |-> worldManager]
    IN  IF worldDb # NoRow /\ worldDb.tileCache # <<>>
        THEN /\ UNCHANGED <<worldManager, worldDb>>
             /\ lastWorld' = call @@ [ok |-> TRUE, cached |-> TRUE,
                                      returned |-> worldDb.tileCache]
        ELSE IF restored[s] = NoEngine
        THEN /\ UNCHANGED <<worldManager, worldDb>>
             /\ lastWorld' = call @@ [ok |-> FALSE, cached |-> FALSE,
                                      returned |-> <<>>]
        ELSE /\ worldManager' = restored
             /\ worldDb' = [worldDb EXCEPT !.tileCache = <<restored[s].applied>>]
             /\ lastWorld' = call @@ [ok |-> TRUE, cached |-> FALSE,
                                      returned |-> <<restored[s].applied>>]

(***************************************************************************)
(* Improvisation engine (server/consolidated/improvisation-manage.ts):     *)
(* stunts, custom effects and arcane synthesis.  effects is the            *)
(* custom_effects table, a row's position being its id and NoRow a deleted *)
(* row; spellbook is the synthesized_spells table.                         *)
(***************************************************************************)
\* rows the custom_effects and synthesized_spells tables are followed to
MaxEffects == 2
MaxSpells == 1
\* ids a caller names as the target of an effect
EffectTargets == {"hero", "goblin"}
\* durations a caller gives to apply_effect (durationValue has no minimum)
DurationTypes == {"rounds", "permanent"}
DurationValues == {0, 1, 2}
\* values tried for rounds, 0 being below the schema's minimum
RoundsInputs == {0, 1, 2}
\* values tried for dc, 4 and 36 being outside the schema's range
StuntDcs == {4, 5, 15, 35, 36}
\* the actor's row (its ability score for the skill), or NoRow
StuntActors == {NoRow, [ability |-> 10], [ability |-> 20]}
\* values tried for the two d20 of a stunt and for the total of a damage roll
StuntRolls == {1, 5, 10, 15, 20}
SecondRolls == {1, 20}
DamageTotals == {0, 3}
\* ids a caller names as the caster, and the row of each: "hero" has int 18,
\* level 5 and a related known spell, "goblin" int 10, level 1 and none,
\* "ghost" has no row
CasterIds == {"hero", "goblin", "ghost"}
CasterRow(casterId) ==
    CASE casterId = "hero" -> [int |-> 18, level |-> 5, related |-> TRUE]
      [] casterId = "goblin" -> [int |-> 10, level |-> 1, related |-> FALSE]
      [] OTHER -> NoRow
\* values tried for estimatedLevel (0 is below the schema's minimum),
\* materialValue and the d20 of a synthesis
EstimatedLevels == {0, 1, 3}
MaterialValues == {0, 500}
SynthesisRolls == {1, 2, 10, 19, 20}
\* circumstanceModifiers: each modifier is the set of key phrases it contains
CircumstanceModifiers == {<<>>, <<{"ley line"}, {"eclipse", "desperation"}>>}

\* rollD20: the first die, or with advantage / disadvantage (not both) the
\* higher / lower of two
rollD20(advantage, disadvantage, roll1, roll2) ==
    IF ~advantage /\ ~disadvantage THEN roll1
    ELSE IF advantage /\ ~disadvantage THEN Max(roll1, roll2)
    ELSE IF disadvantage /\ ~advantage THEN Min(roll1, roll2)
    ELSE roll1

\* getSkillModifier, of the ability score the skill maps to
getSkillModifier(abilityScore) == (abilityScore - 10) \div 2

\* StuntSchema: dc is an integer from 5 to 35
StuntSchemaOk(dc) == dc >= 5 /\ dc <= 35

\* the critical success of a stunt as it would be without the natural 20
StuntCriticalSuccessNoNat20(roll, total, dc) ==
    total >= dc /\ total >= dc + 10

\* criticalSuccess, criticalFailure and success of a stunt
StuntCriticalSuccess(roll, total, dc) ==
    roll = 20 \/ (total >= dc /\ total >= dc + 10)

StuntCriticalFailure(roll, total, dc) ==
    roll = 1 \/ (~(total >= dc) /\ total <= dc - 10)

StuntSuccess(roll, total, dc) ==
    roll = 20 \/ (total >= dc /\ roll # 1)

\* stunt: the classification of the roll, the damage of a success (doubled
\* on a critical success) or the self-damage of a critical failure; the
\* per-target saving throws of the result are left out.  <<>> is an absent
\* field of the result
HandleStunt(dc, actor, advantage, disadvantage, roll1, roll2, successDamage, failureDamage, damageRoll) ==
    IF ~StuntSchemaOk(dc)
    THEN /\ lastImprov' = [op |-> "stunt", ok |-> FALSE, dc |-> dc]
         /\ UNCHANGED <<effects, spellbook>>
    ELSE LET skillModifier == IF actor = NoRow THEN 0
                              ELSE getSkillModifier(actor.ability)
             roll == rollD20(advantage, disadvantage, roll1, roll2)
             total == roll + skillModifier
             criticalSuccess == StuntCriticalSuccess(roll, total, dc)
             criticalFailure == StuntCriticalFailure(roll, total, dc)
             success == StuntSuccess(roll, total, dc)
         IN  /\ lastImprov' =
                  [op |-> "stunt", ok |-> TRUE, dc |-> dc, roll |-> roll,
                   modifier |-> skillModifier, total |-> total,
                   success |-> success,
                   criticalSuccess |-> criticalSuccess,
                   criticalFailure |-> criticalFailure,
                   damageRoll |-> damageRoll,
                   damage |-> IF success /\ successDamage
                              THEN <<IF criticalSuccess THEN damageRoll * 2
                                     ELSE damageRoll>>
                              ELSE <<>>,
                   selfDamage |-> IF ~(success /\ successDamage)
                                     /\ ~success /\ criticalFailure
                                     /\ failureDamage
                                  THEN <<damageRoll>> ELSE <<>>]
             /\ UNCHANGED <<effects, spellbook>>

\* CustomEffectsRepository.apply: a new active row
ApplyEffect(rows, targetId, durationType, durationValue) ==
    Append(rows, [targetId |-> targetId, durationType |-> durationType,
                  roundsRemaining |-> durationValue, isActive |-> TRUE])

\* CustomEffectsRepository.advanceRounds: the rounds counter of every active
\* round-based effect on the target is decremented; an effect whose counter
\* reaches 0 has expired and is flagged inactive
AdvanceRounds(rows, targetId, rounds) ==
    [i \in 1..Len(rows) |->
        IF rows[i] # NoRow /\ rows[i].targetId = targetId /\ rows[i].isActive
           /\ rows[i].durationType = "rounds"
        THEN [rows[i] EXCEPT !.roundsRemaining = @ - rounds,
                             !.isActive = (rows[i].roundsRemaining - rounds) > 0]
        ELSE rows[i]]

\* CustomEffectsRepository.cleanupExpired: inactive rows are deleted
CleanupExpired(rows) ==
    [i \in 1..Len(rows) |->
        IF rows[i] # NoRow /\ ~rows[i].isActive THEN NoRow ELSE rows[i]]

\* apply_effect
HandleApplyEffect(targetId, durationType, durationValue) ==
    /\ effects' = ApplyEffect(effects, targetId, durationType, durationValue)
    /\ lastImprov' = [op |-> "apply_effect", ok |-> TRUE, before |-> effects]
    /\ UNCHANGED spellbook

\* AdvanceDurationsSchema as it would be with rounds from 0
AdvanceDurationsSchemaFromZero(rounds) == rounds >= 0

\* AdvanceDurationsSchema: rounds is an integer of at least 1
AdvanceDurationsSchemaOk(rounds) == rounds >= 1

\* advance_durations: arguments the schema refuses never reach the handler,
\* which advances the target's effects and then cleans up the expired ones
HandleAdvanceDurations(targetId, rounds) ==
    /\ effects' = IF AdvanceDurationsSchemaOk(rounds)
                  THEN CleanupExpired(AdvanceRounds(effects, targetId, rounds))
                  ELSE effects
    /\ lastImprov' = [op |-> "advance_durations",
                      ok |-> AdvanceDurationsSchemaOk(rounds),
                      targetId |-> targetId, rounds |-> rounds,
                      before |-> effects]
    /\ UNCHANGED spellbook

\* SynthesizeSchema: estimatedLevel is an integer from 1 to 9
SynthesizeSchemaOk(estimatedLevel) == estimatedLevel >= 1 /\ estimatedLevel <= 9

\* intelligence modifier plus proficiency bonus, 0 without a caster row
SpellcastingModifier(caster) ==
    IF caster = NoRow THEN 0
    ELSE getAbilityModifier(caster.int) + ((caster.level \div 4) + 2)

\* the change of the dc by the circumstance modifiers, one after the other
RECURSIVE CircumstanceDc(_)
CircumstanceDc(modifiers) ==
    IF modifiers = <<>> THEN 0
    ELSE (IF "ley line" \in Head(modifiers) THEN -3 ELSE 0)
         + (IF "eclipse" \in Head(modifiers) THEN -2 ELSE 0)
         + (IF "desperation" \in Head(modifiers) THEN 2 ELSE 0)
         + CircumstanceDc(Tail(modifiers))

\* the dc of a synthesis
SynthesisDc(estimatedLevel, inCombat, hasRelatedSpell, materialValue, modifiers) ==
    10 + (estimatedLevel * 2)
       + (IF inCombat THEN 2 ELSE 0)
       + (IF ~hasRelatedSpell THEN 3 ELSE -2)
       - (IF materialValue # 0 THEN Min(5, materialValue \div 100) ELSE 0)
       + CircumstanceDc(modifiers)

\* the outcome of a synthesis, its tests in the order of the code
SynthesisOutcome(roll, total, dc) ==
    LET margin == total - dc
    IN  IF roll = 20 \/ margin >= 10 THEN "mastery"
        ELSE IF total >= dc THEN "success"
        ELSE IF margin >= -5 THEN "fizzle"
        ELSE IF roll = 1 \/ margin <= -10 THEN "catastrophic"
        ELSE "backfire"

\* the spellbook rule as it would be if a success were saved too
SavesToSpellbookOnSuccess(outcome) == outcome \in {"mastery", "success"}

\* the outcome whose spell is inserted into synthesized_spells
SavesToSpellbook(outcome) == outcome = "mastery"

\* synthesize: dc, roll, outcome; a mastered spell is inserted for the
\* caster, and a failing insert is reported and writes nothing
HandleSynthesize(casterId, estimatedLevel, inCombat, materialValue, modifiers, roll, insertFails) ==
    IF ~SynthesizeSchemaOk(estimatedLevel)
    THEN /\ lastImprov' = [op |-> "synthesize", ok |-> FALSE,
                           before |-> spellbook]
         /\ UNCHANGED <<effects, spellbook>>
    ELSE LET caster == CasterRow(casterId)
             spellcastingModifier == SpellcastingModifier(caster)
             hasRelatedSpell == caster # NoRow /\ caster.related
             dc == SynthesisDc(estimatedLevel, inCombat, hasRelatedSpell,
                               materialValue, modifiers)
             total == roll + spellcastingModifier
             outcome == SynthesisOutcome(roll, total, dc)
             saved == SavesToSpellbook(outcome) /\ ~insertFails
         IN  /\ spellbook' =
                  IF saved
                  THEN Append(spellbook, [characterId |-> casterId,
                                          level |-> estimatedLevel])
                  ELSE spellbook
             /\ lastImprov' =
                  [op |-> "synthesize", ok |-> TRUE, casterId |-> casterId,
                   outcome |-> outcome, roll |-> roll,
                   modifier |-> spellcastingModifier, total |-> total,
                   dc |-> dc,
                   spellMastered |-> outcome = "mastery",
                   spellSlotConsumed |-> outcome # "mastery",
                   addedToSpellbook |-> IF SavesToSpellbook(outcome)
                                        THEN <<~insertFails>> ELSE <<>>,
                   before |-> spellbook]
             /\ UNCHANGED effects

(***************************************************************************)
(* The relational schema (storage/migrations.ts): the worlds table and the *)
(* tables whose world_id is a foreign key to it with ON DELETE CASCADE.    *)
(* store.worlds is the set of world ids, store.rows[t] the rows of table   *)
(* t, each a pair of its primary key and its world_id.                     *)
(***************************************************************************)
WorldIds == {"w1", "w2"}
\* the tables declared with FOREIGN KEY(world_id) ... ON DELETE CASCADE, as
\* they would be if quests were declared without it
CascadingTablesWithoutQuests ==
    {"regions", "tiles", "structures", "rivers", "turn_state"}

\* the tables declared with FOREIGN KEY(world_id) REFERENCES worlds(id)
\* ON DELETE CASCADE
CascadingTables ==
    {"regions", "tiles", "structures", "rivers", "quests", "turn_state"}

\* the tables with a world_id column
WorldTables ==
    {"regions", "tiles", "structures", "rivers", "quests", "turn_state"}

\* primary keys tried for the rows of a table; turn_state is keyed by its
\* world_id
RowIds(table) ==
    CASE table = "turn_state" -> WorldIds
      [] table \in {"regions", "quests"} -> {"r1", "r2"}
      [] OTHER -> {"r1"}

\* INSERT INTO worlds: refused for an id already present
InsertWorld(db, worldId) ==
    IF worldId \in db.worlds THEN db
    ELSE [db EXCEPT !.worlds = @ \cup {worldId}]

\* INSERT of a row with a world_id: refused when the primary key is taken
\* or, in a table with the foreign key, when the world does not exist
InsertRow(db, table, id, worldId) ==
    IF \/ \E r \in db.rows[table] : r[1] = id
       \/ (table \in CascadingTables /\ worldId \notin db.worlds)
       \/ (table = "turn_state" /\ id # worldId)
    THEN db
    ELSE [db EXCEPT !.rows[table] = @ \cup {<<id, worldId>>}]

\* DELETE of one row by its primary key
DeleteRow(db, table, id) ==
    [db EXCEPT !.rows[table] = {r \in @ : r[1] # id}]

\* DELETE FROM worlds: the rows of the cascading tables that reference the
\* world go with it
DeleteWorld(db, worldId) ==
    IF worldId \notin db.worlds THEN db
    ELSE [worlds |-> db.worlds \ {worldId},
          rows |-> [t \in WorldTables |->
                       IF t \in CascadingTables
                       THEN {r \in db.rows[t] : r[2] # worldId}
                       ELSE db.rows[t]]]

(***************************************************************************)
(* batch_manage create_characters (server/consolidated/batch-manage.ts).   *)
(* roster is the characters table as this tool fills it, in creation       *)
(* order; <<>> is an absent optional field of an entry.                    *)
(***************************************************************************)
\* entries of one call and rows of the table explored
MaxBatch == 2
MaxRoster == 2
\* the entries a caller may pass: a name, optional stats (the con score),
\* optional hp and maxHp, and whether CharacterRepository.create throws for
\* it; "ann" is tried with every optional field absent, "bob" with stats
\* and with one of hp and maxHp
BatchEntries ==
    {e \in [name : {"ann", "bob"}, stats : {<<>>, <<14>>}, hp : {<<>>, <<5>>},
            maxHp : {<<>>, <<9>>}, fails : BOOLEAN] :
        IF e.name = "ann" THEN e.stats = <<>> /\ e.hp = <<>> /\ e.maxHp = <<>>
        ELSE e.stats # <<>> /\ ((e.hp = <<>>) # (e.maxHp = <<>>))}

BatchLists == UNION {[1..n -> BatchEntries] : n \in 0..MaxBatch}

\* the character built from an entry: con defaults to 10, hp to
\* max(1, 8 + con modifier), maxHp to hp
BatchCharacter(charData) ==
    LET con == IF charData.stats = <<>> THEN 10 ELSE charData.stats[1]
        conModifier == (con - 10) \div 2
        baseHp == Max(1, 8 + conModifier)
        hp == IF charData.hp = <<>> THEN baseHp ELSE charData.hp[1]
        maxHp == IF charData.maxHp = <<>> THEN hp ELSE charData.maxHp[1]
    IN [name |-> charData.name, hp |-> hp, maxHp |-> maxHp]

\* the loop as it would be if the first failure ended it
RECURSIVE CreateLoopStopsAtFailure(_, _)
CreateLoopStopsAtFailure(chars, k) ==
    IF k = 0 THEN [created |-> <<>>, errors |-> <<>>]
    ELSE LET prev == CreateLoopStopsAtFailure(chars, k - 1)
         IN IF prev.errors # <<>> THEN prev
            ELSE IF chars[k].fails
            THEN [prev EXCEPT !.errors = Append(@, chars[k].name)]
            ELSE [prev EXCEPT !.created = Append(@, BatchCharacter(chars[k]))]

\* the loop over the first k entries: each is created, or its failure is
\* caught and reported, and the loop goes on
RECURSIVE CreateLoop(_, _)
CreateLoop(chars, k) ==
    IF k = 0 THEN [created |-> <<>>, errors |-> <<>>]
    ELSE LET prev == CreateLoop(chars, k - 1)
         IN IF chars[k].fails
            THEN [prev EXCEPT !.errors = Append(@, chars[k].name)]
            ELSE [prev EXCEPT !.created = Append(@, BatchCharacter(chars[k]))]

\* create_characters: a missing or empty list is an error; else the result
\* counts what the loop created and what it reported
HandleCreateCharacters(given, chars) ==
    IF ~given \/ Len(chars) = 0
    THEN /\ lastBatch' = [op |-> "create_characters", error |-> TRUE,
                          input |-> chars, before |-> roster]
         /\ UNCHANGED roster
    ELSE LET done == CreateLoop(chars, Len(chars))
         IN /\ roster' = roster \o done.created
            /\ lastBatch' = [op |-> "create_characters", error |-> FALSE,
                             input |-> chars, before |-> roster,
                             success |-> (Len(done.errors) = 0),
                             createdCount |-> Len(done.created),
                             errors |-> Len(done.errors)]

(***************************************************************************)
(* Initial state and the combat / rest specification.                      *)
(***************************************************************************)
\* characters persisted before the first call: hero, with maxHp smallest or
\* largest and hp 0 or full (rests bring the values between)
InitCharacters ==
    {[c \in CharacterIds |->
        IF c = "hero" THEN [hp |-> hm[1], maxHp |-> hm[2], con |-> con] ELSE NoRow] :
     hm \in {x \in {0, 1, MaxHp} \X {1, MaxHp} : x[1] \in {0, x[2]}},
     con \in ConScores}

InitCombat ==
    /\ characters \in InitCharacters
    /\ encDb = NoRow
    /\ manager = [s \in Sessions |-> NoEngine]
    /\ lastCall = OtherCall

InitTheft ==
    /\ theftRecords = [i \in TheftItems |-> NoRow]
    /\ fences = [n \in TheftActors |-> NoRow]
    /\ lastTheft = [op |-> "init", ok |-> TRUE]
    /\ lastRoute = NoRoute

InitQuest ==
    /\ quests = [q \in QuestIds |-> NoRow]
    /\ questLogs = [c \in CharacterIds |-> NoRow]
    /\ inventory = [c \in CharacterIds |-> [i \in InventoryItemIds |-> NoRow]]
    /\ lastInv = OtherInventoryCall
    /\ completions = [c \in CharacterIds |-> [q \in QuestIds |-> 0]]
    /\ lastQuest = [op |-> "init", found |-> FALSE, ok |-> TRUE, changed |-> FALSE]

InitWorld ==
    /\ worldManager = [s \in Sessions |-> NoEngine]
    /\ worldDb = NoRow
    /\ lastWorld = [op |-> "init", session |-> "none", ok |-> TRUE]

InitImprovisation ==
    /\ effects = <<>>
    /\ spellbook = <<>>
    /\ lastImprov = [op |-> "init"]

InitSchema ==
    store = [worlds |-> {}, rows |-> [t \in WorldTables |-> {}]]

InitBatch ==
    /\ roster = <<>>
    /\ lastBatch = [op |-> "init"]

Init ==
    /\ InitCombat /\ InitTheft /\ InitQuest /\ InitWorld /\ InitImprovisation
    /\ InitSchema /\ InitBatch

\* the initial state of the specifications that leave combat alone: one
\* persisted character, hero, at full hp
InitOutsideCombat ==
    /\ Init
    /\ characters["hero"].hp = MaxHp
    /\ characters["hero"].maxHp = MaxHp

CreateEncounter ==
    /\ \E s \in MainSessions, args \in ParticipantArgs,
       rolls \in InitiativeRolls :
        HandleCreateEncounter(s, args, rolls)
    /\ UNCHANGED outsideCombat

GetEncounterState ==
    /\ \E s \in MainSessions : HandleGetEncounterState(s)
    /\ UNCHANGED outsideCombat

Attack ==
    /\ \E s \in MainSessions, targetId \in ParticipantIds, attackBonus \in AttackBonuses,
       dc \in Dcs, damage \in Damages, roll \in AttackRolls, complete \in BOOLEAN :
        \* what an incomplete call leaves out does not matter: one is tried
        /\ complete \/ (targetId = "hero" /\ damage = 1 /\ roll = 1)
        /\ HandleAttack(s, targetId, attackBonus, dc, damage, roll, complete)
    /\ UNCHANGED outsideCombat

Heal ==
    /\ \E s \in MainSessions, targetId \in ParticipantIds, amount \in Amounts,
       complete \in BOOLEAN :
        /\ complete \/ (targetId = "hero" /\ amount = 1)
        /\ HandleHeal(s, targetId, amount, complete)
    /\ UNCHANGED outsideCombat

AdvanceTurn ==
    /\ \E s \in MainSessions : HandleAdvanceTurn(s)
    /\ UNCHANGED outsideCombat

EndEncounter ==
    /\ \E s \in MainSessions : HandleEndEncounter(s)
    /\ UNCHANGED outsideCombat

LoadEncounter ==
    /\ \E s \in MainSessions : HandleLoadEncounter(s)
    /\ UNCHANGED outsideCombat

TakeLongRest ==
    /\ \E c \in CharacterIds : HandleTakeLongRest(c)
    /\ UNCHANGED outsideCombat

TakeShortRest ==
    /\ \E c \in CharacterIds, n \in HitDiceToSpend, rolls \in HitDiceRolls :
        \* dice that are not spent are not rolled
        /\ \A k \in (n + 1)..2 : rolls[k] = 1
        /\ HandleTakeShortRest(c, n, rolls)
    /\ UNCHANGED outsideCombat

NextCombat ==
    \/ CreateEncounter
    \/ GetEncounterState
    \/ Attack
    \/ Heal
    \/ AdvanceTurn
    \/ EndEncounter
    \/ LoadEncounter
    \/ TakeLongRest
    \/ TakeShortRest

SpecCombat == Init /\ [][NextCombat]_vars

(***************************************************************************)
(* The theft specification.                                                *)
(***************************************************************************)
Steal ==
    /\ \E thiefId \in TheftActors, victimId \in TheftActors, itemId \in TheftItems :
        HandleSteal(thiefId, victimId, itemId, {})
    /\ UNCHANGED outsideTheft

RegisterFenceCall ==
    /\ \E npcId \in TheftActors, maxHeatLevel \in MaxHeatLevels,
          dailyHeatCapacity \in DailyHeatCapacities :
        HandleRegisterFence(npcId, maxHeatLevel, dailyHeatCapacity)
    /\ UNCHANGED outsideTheft

Report ==
    /\ \E itemId \in TheftItems, bountyOffered \in BountiesOffered :
        HandleReport(itemId, bountyOffered)
    /\ UNCHANGED outsideTheft

Decay ==
    /\ \E daysAdvanced \in DaysAdvanced : HandleDecay(daysAdvanced)
    /\ UNCHANGED outsideTheft

Sell ==
    /\ \E fenceId \in TheftActors, itemId \in TheftItems,
          underCooldown \in BOOLEAN :
        /\ fences[fenceId] # NoRow =>
            fences[fenceId].dailyHeatUsed \in HeatUsedExplored
        /\ HandleSell(fenceId, itemId, underCooldown)
    /\ UNCHANGED outsideTheft

NextTheft ==
    \/ Steal
    \/ RegisterFenceCall
    \/ Report
    \/ Decay
    \/ Sell

SpecTheft == InitOutsideCombat /\ [][NextTheft]_vars

(***************************************************************************)
(* Calls of the consolidated tools through their action routers.           *)
(***************************************************************************)
TheftManage ==
    /\ \E action \in TheftActionInputs, p \in TheftPayloads :
        HandleTheftManage(action, p)
    /\ UNCHANGED <<combatVars, questVars, lastInv, worldVars, improvisationVars,
      schemaVars, batchVars>>

ImprovisationManage ==
    /\ \E action \in ImprovisationActionInputs :
        HandleImprovisationManage(action)
    /\ UNCHANGED <<combatVars, questVars, lastInv, worldVars, improvisationVars,
      schemaVars, batchVars>>

BatchManage ==
    /\ \E action \in BatchActionInputs : HandleBatchManage(action)
    /\ UNCHANGED <<combatVars, questVars, lastInv, worldVars, improvisationVars,
      schemaVars, batchVars>>

NextRouter ==
    \/ TheftManage
    \/ ImprovisationManage
    \/ BatchManage

SpecRouter == InitOutsideCombat /\ [][NextRouter]_vars

(***************************************************************************)
(* The world specification: generate_world, apply_map_patch and            *)
(* get_world_tiles from either session.                                    *)
(***************************************************************************)
GenerateWorld ==
    /\ \E s \in Sessions : HandleGenerateWorld(s)
    /\ UNCHANGED outsideWorld

ApplyMapPatch ==
    /\ \E s \in Sessions, script \in PatchScripts :
        /\ HandleApplyMapPatch(s, script)
        /\ worldManager'[s] # NoEngine => worldManager'[s].applied <= MaxApplied
    /\ UNCHANGED outsideWorld

GetWorldTiles ==
    /\ \E s \in Sessions : HandleGetWorldTiles(s)
    /\ UNCHANGED outsideWorld

NextWorld ==
    \/ GenerateWorld
    \/ ApplyMapPatch
    \/ GetWorldTiles

SpecWorld == InitOutsideCombat /\ [][NextWorld]_vars

(***************************************************************************)
(* The schema specification: inserts and deletes on the worlds table and   *)
(* on the tables that reference it.                                        *)
(***************************************************************************)
InsertWorldStep ==
    /\ \E w \in WorldIds : store' = InsertWorld(store, w)
    /\ UNCHANGED outsideSchema

InsertRowStep ==
    /\ \E t \in WorldTables, w \in WorldIds : \E id \in RowIds(t) :
        store' = InsertRow(store, t, id, w)
    /\ UNCHANGED outsideSchema

DeleteRowStep ==
    /\ \E t \in WorldTables : \E id \in RowIds(t) : store' = DeleteRow(store, t, id)
    /\ UNCHANGED outsideSchema

DeleteWorldStep ==
    /\ \E w \in WorldIds : store' = DeleteWorld(store, w)
    /\ UNCHANGED outsideSchema

NextSchema ==
    \/ InsertWorldStep
    \/ InsertRowStep
    \/ DeleteRowStep
    \/ DeleteWorldStep

SpecSchema == InitOutsideCombat /\ [][NextSchema]_vars

(***************************************************************************)
(* The batch specification: calls of batch_manage create_characters.       *)
(***************************************************************************)
CreateCharacters ==
    /\ \E given \in BOOLEAN, chars \in BatchLists :
        /\ given \/ chars = <<>>
        /\ HandleCreateCharacters(given, chars)
        /\ Len(roster') <= MaxRoster
    /\ UNCHANGED outsideBatch

NextBatch == CreateCharacters

SpecBatch == InitOutsideCombat /\ [][NextBatch]_vars

(***************************************************************************)
(* The two-session specification: the combat and world tools called from   *)
(* both sessions on the same encounter and world.                          *)
(***************************************************************************)
SessionCreateEncounter ==
    /\ \E s \in Sessions, args \in ParticipantArgs, rolls \in InitiativeRolls :
        /\ args.hero.hp = MaxHp /\ args.hero.maxHp = MaxHp
        /\ HandleCreateEncounter(s, args, rolls)
    /\ UNCHANGED outsideCombat

SessionGetEncounterState ==
    /\ \E s \in Sessions : HandleGetEncounterState(s)
    /\ UNCHANGED outsideCombat

SessionAttack ==
    /\ \E s \in Sessions, attackBonus \in AttackBonuses, dc \in Dcs :
        HandleAttack(s, "goblin", attackBonus, dc, 1, 20, TRUE)
    /\ UNCHANGED outsideCombat

SessionAdvanceTurn ==
    /\ \E s \in Sessions : HandleAdvanceTurn(s)
    /\ UNCHANGED outsideCombat

SessionEndEncounter ==
    /\ \E s \in Sessions : HandleEndEncounter(s)
    /\ UNCHANGED outsideCombat

SessionLoadEncounter ==
    /\ \E s \in Sessions : HandleLoadEncounter(s)
    /\ UNCHANGED outsideCombat

\* patches of one command that applies
SessionApplyMapPatch ==
    /\ \E s \in Sessions, script \in PatchScripts :
        /\ script.parses /\ script.commands = 1 /\ script.failsAt > script.commands
        /\ HandleApplyMapPatch(s, script)
        /\ worldManager'[s] # NoEngine => worldManager'[s].applied < MaxApplied
    /\ UNCHANGED outsideWorld

NextSessions ==
    \/ SessionCreateEncounter
    \/ SessionGetEncounterState
    \/ SessionAttack
    \/ SessionAdvanceTurn
    \/ SessionEndEncounter
    \/ SessionLoadEncounter
    \/ GenerateWorld
    \/ SessionApplyMapPatch
    \/ GetWorldTiles

SpecSessions == InitOutsideCombat /\ [][NextSessions]_vars

(***************************************************************************)
(* The improvisation specifications: stunts, custom effects, synthesis.    *)
(***************************************************************************)
Stunt ==
    /\ \E dc \in StuntDcs, actor \in StuntActors,
          advantage \in BOOLEAN, disadvantage \in BOOLEAN,
          roll1 \in StuntRolls, roll2 \in SecondRolls,
          successDamage \in BOOLEAN, failureDamage \in BOOLEAN,
          damageRoll \in DamageTotals :
        HandleStunt(dc, actor, advantage, disadvantage, roll1, roll2,
                    successDamage, failureDamage, damageRoll)
    /\ UNCHANGED outsideImprovisation

NextStunt == Stunt

SpecStunt == InitOutsideCombat /\ [][NextStunt]_vars

ApplyEffectCall ==
    /\ Len(effects) < MaxEffects
    /\ \E targetId \in EffectTargets, durationType \in DurationTypes,
          durationValue \in DurationValues :
        HandleApplyEffect(targetId, durationType, durationValue)
    /\ UNCHANGED outsideImprovisation

AdvanceDurations ==
    /\ \E targetId \in EffectTargets, rounds \in RoundsInputs :
        HandleAdvanceDurations(targetId, rounds)
    /\ UNCHANGED outsideImprovisation

NextEffects ==
    \/ ApplyEffectCall
    \/ AdvanceDurations

SpecEffects == InitOutsideCombat /\ [][NextEffects]_vars

Synthesize ==
    /\ \E casterId \in CasterIds,
          estimatedLevel \in EstimatedLevels, inCombat \in BOOLEAN,
          materialValue \in MaterialValues,
          modifiers \in CircumstanceModifiers,
          roll \in SynthesisRolls, insertFails \in BOOLEAN :
        /\ HandleSynthesize(casterId, estimatedLevel, inCombat,
                            materialValue, modifiers, roll, insertFails)
        /\ Len(spellbook') <= MaxSpells
    /\ UNCHANGED outsideImprovisation

NextSynthesis == Synthesize

SpecSynthesis == InitOutsideCombat /\ [][NextSynthesis]_vars

(***************************************************************************)
(* Recognition of a stolen item: the gem was stolen from bob by cyd, seen  *)
(* or not, reported or not, and has cooled for some days.                  *)
(***************************************************************************)
InitRecognize ==
    /\ InitCombat
    /\ characters["hero"].hp = MaxHp
    /\ characters["hero"].maxHp = MaxHp
    /\ InitQuest
    /\ InitWorld
    /\ InitImprovisation
    /\ InitSchema
    /\ InitBatch
    /\ fences = [n \in TheftActors |-> NoRow]
    /\ lastTheft = [op |-> "init", ok |-> TRUE]
    /\ lastRoute = NoRoute
    /\ \E witnesses \in WitnessSets, bounty \in RecognizeBounties :
        theftRecords =
            [ReportToGuards(
                RecordTheft([i \in TheftItems |-> NoRow], "gem", "bob", "cyd",
                            witnesses),
                "gem", bounty)
             EXCEPT !["gem"].reportedToGuards = bounty > 0]

Recognize ==
    /\ \E npcId \in TheftActors, itemId \in TheftItems,
          roll \in RecognizeRolls :
        HandleRecognize(npcId, itemId, roll)
    /\ UNCHANGED outsideTheft

NextRecognize ==
    \/ Recognize
    \/ Decay

SpecRecognize == InitRecognize /\ [][NextRecognize]_vars

(***************************************************************************)
(* The quest specification.                                                *)
(***************************************************************************)
\* prerequisites a caller can name: ids of quests created before
PrerequisiteArgs(q) ==
    {<<>>} \cup {<<p>> : p \in {x \in QuestIds : quests[x] # NoRow}}

CreateQuest ==
    /\ \E q \in QuestIds, objectives \in ObjectiveArgs,
          rewardItems \in {<<"sword">>, <<"relic">>} :
        \E prerequisites \in PrerequisiteArgs(q) :
            HandleCreateQuest(q, objectives, prerequisites, rewardItems)
    /\ UNCHANGED outsideQuest

AssignQuest ==
    /\ \E c \in CharacterIds, q \in QuestIds : HandleAssignQuest(c, q)
    /\ UNCHANGED outsideQuest

UpdateObjective ==
    /\ \E c \in CharacterIds, q \in QuestIds, objectiveId \in ObjectiveIds,
          progress \in Progresses :
        HandleUpdateObjective(c, q, objectiveId, progress)
    /\ UNCHANGED outsideQuest

CompleteObjectiveCall ==
    /\ \E q \in QuestIds, objectiveId \in ObjectiveIds :
        HandleCompleteObjective(q, objectiveId)
    /\ UNCHANGED outsideQuest

CompleteQuest ==
    /\ \E c \in CharacterIds, q \in QuestIds : HandleCompleteQuest(c, q)
    /\ UNCHANGED outsideQuest

NextQuest ==
    \/ CreateQuest
    \/ AssignQuest
    \/ UpdateObjective
    \/ CompleteObjectiveCall
    \/ CompleteQuest

SpecQuest == InitOutsideCombat /\ [][NextQuest]_vars

(***************************************************************************)
(* Properties of combat, write-back and rests.                             *)
(***************************************************************************)
\* C1: right after a successful end_encounter every participant whose id was
\* the id of a persisted character has its final hp stored in that character,
\* and an id that was not persisted has no character row afterwards.
C1_EndEncounterWritesBackHp ==
    (lastCall.op = "end_encounter" /\ lastCall.ok) =>
        /\ \A p \in ParticipantIds :
            p \in lastCall.persisted =>
                /\ characters[p] # NoRow
                /\ characters[p].hp = lastCall.final[p].hp
        /\ \A c \in CharacterIds :
            c \notin lastCall.persisted => characters[c] = NoRow

\* an encounter in which hero was beaten down to 0 has ended: hero's row
\* holds 0 although its maxHp is higher, and goblin stayed ad hoc
C1_Witness ==
    /\ lastCall.op = "end_encounter"
    /\ lastCall.ok
    /\ lastCall.persisted = {"hero"}
    /\ lastCall.final["hero"].hp = 0
    /\ lastCall.final["hero"].maxHp = MaxHp
    /\ characters["hero"].hp = 0
    /\ characters["goblin"] = NoRow

\* C2: every participant of every engine has 0 <= hp <= maxHp, and a defeated
\* participant (hp <= 0) has hp exactly 0.
C2_ParticipantHpInRange ==
    \A s \in Sessions :
        manager[s] # NoEngine =>
            \A p \in ParticipantIds :
                LET t == manager[s].participants[p]
                IN /\ 0 <= t.hp
                   /\ t.hp <= t.maxHp
                   /\ (IsDefeated(manager[s], p) => t.hp = 0)

\* C3: every persisted character has 0 <= hp <= its own maxHp.
C3_CharacterHpInRange ==
    \A c \in CharacterIds :
        characters[c] # NoRow =>
            /\ 0 <= characters[c].hp
            /\ characters[c].hp <= characters[c].maxHp

(***************************************************************************)
(* Properties of the theft / fence engine.                                 *)
(***************************************************************************)
\* C4: a steal whose thief is its victim is rejected and changes no theft
\* record, and no theft record has stolenFrom = stolenBy.
C4_NoSelfTheft ==
    /\ \A i \in TheftItems :
        theftRecords[i] # NoRow => theftRecords[i].stolenFrom # theftRecords[i].stolenBy
    /\ (lastTheft.op = "steal" /\ lastTheft.thiefId = lastTheft.victimId) =>
        (~lastTheft.ok /\ ~lastTheft.recordsChanged)

\* a self-theft was just refused while another theft is on record
C4_Witness ==
    /\ lastTheft.op = "steal"
    /\ lastTheft.thiefId = lastTheft.victimId
    /\ ~lastTheft.ok
    /\ \E i \in TheftItems : theftRecords[i] # NoRow

\* C5: no npc is both a registered fence and the victim of a recorded theft.
C5_NoFenceIsVictim ==
    \A n \in TheftActors :
        fences[n] # NoRow => GetItemsStolenFrom(theftRecords, n) = {}

(***************************************************************************)
(* The inventory specification.                                            *)
(***************************************************************************)
\* two persisted characters, no inventory rows
InitInventory ==
    /\ \E con \in ConScores :
        characters = [c \in CharacterIds |-> [hp |-> MaxHp, maxHp |-> MaxHp, con |-> con]]
    /\ encDb = NoRow
    /\ manager = [s \in Sessions |-> NoEngine]
    /\ lastCall = OtherCall
    /\ InitTheft
    /\ InitQuest
    /\ InitWorld
    /\ InitImprovisation
    /\ InitSchema
    /\ InitBatch

AddItemCall ==
    /\ \E c \in CharacterIds, i \in InventoryItemIds, n \in Quantities :
        AddItemStep(c, i, n)
    /\ UNCHANGED outsideInventory

RemoveItemCall ==
    /\ \E c \in CharacterIds, i \in ItemsTable, n \in Quantities :
        RemoveItemStep(c, i, n)
    /\ UNCHANGED outsideInventory

EquipItemCall ==
    /\ \E c \in CharacterIds, i \in ItemsTable, slot \in Slots :
        EquipItemStep(c, i, slot)
    /\ UNCHANGED outsideInventory

UnequipItemCall ==
    /\ \E c \in CharacterIds, i \in ItemsTable : UnequipItemStep(c, i)
    /\ UNCHANGED outsideInventory

TransferItemCall ==
    /\ \E from \in CharacterIds, to \in CharacterIds, i \in ItemsTable,
          n \in Quantities :
        TransferItemStep(from, to, i, n)
    /\ UNCHANGED outsideInventory

NextInventory ==
    \/ AddItemCall
    \/ RemoveItemCall
    \/ EquipItemCall
    \/ UnequipItemCall
    \/ TransferItemCall

SpecInventory == InitInventory /\ [][NextInventory]_vars

(***************************************************************************)
(* Properties of the quest engine.                                         *)
(***************************************************************************)
\* C6: every objective of every stored quest has completed = TRUE exactly
\* when current >= required, and update_objective leaves current at
\* min(required, current before + progress).
C6_CompletedIffReached ==
    /\ \A q \in QuestIds :
        quests[q] # NoRow =>
            \A k \in 1..Len(quests[q].objectives) :
                LET o == quests[q].objectives[k]
                IN o.completed <=> (o.current >= o.required)
    /\ (lastQuest.op = "update_objective" /\ lastQuest.ok) =>
        LET o == quests[lastQuest.questId].objectives[lastQuest.index]
        IN o.current = Min(o.required, lastQuest.before + lastQuest.progress)

\* C7: complete_quest succeeds only for a quest that was in the character's
\* activeQuests with every objective completed; a failed complete_quest
\* changes no quest, quest log or inventory row.
C7_CompleteQuestGuarded ==
    lastQuest.op = "complete_quest" =>
        /\ lastQuest.ok => (lastQuest.wasActive /\ lastQuest.allCompleted)
        /\ ~lastQuest.ok => ~lastQuest.changed

\* complete_quest was just refused for an active quest with an open objective
C7_Witness ==
    /\ lastQuest.op = "complete_quest"
    /\ lastQuest.found
    /\ ~lastQuest.ok
    /\ lastQuest.wasActive
    /\ ~lastQuest.allCompleted
    /\ \E q \in QuestIds : completions["hero"][q] = 1

\* C8: complete_quest(c, q) succeeds at most once; once it has, q is in c's
\* completedQuests and not in activeQuests, completing or assigning it again
\* is rejected, and c's inventory holds each reward item once per quest
\* completed.
C8_CompleteAtMostOnce ==
    /\ \A c \in CharacterIds, q \in QuestIds :
        /\ completions[c][q] <= 1
        /\ completions[c][q] = 1 =>
            /\ Includes(questLogs[c].completedQuests, q)
            /\ ~Includes(questLogs[c].activeQuests, q)
    /\ (lastQuest.op \in {"complete_quest", "assign_quest"}
            /\ lastQuest.found /\ lastQuest.wasCompleted) => ~lastQuest.ok
    /\ \A c \in CharacterIds, item \in ItemsTable :
        LET granted(q) ==
                IF quests[q] = NoRow THEN 0
                ELSE completions[c][q]
                     * Cardinality({i \in 1..Len(quests[q].rewardItems) :
                                        quests[q].rewardItems[i] = item})
            due[k \in 0..Len(QuestOrder)] ==
                IF k = 0 THEN 0 ELSE due[k - 1] + granted(QuestOrder[k])
        IN Quantity(inventory, c, item) = due[Len(QuestOrder)]

\* a second complete_quest of a quest already completed was just refused,
\* the sword it rewards being held once
C8_Witness ==
    /\ lastQuest.op = "complete_quest"
    /\ lastQuest.found
    /\ lastQuest.wasCompleted
    /\ ~lastQuest.ok
    /\ completions["hero"][lastQuest.questId] = 1
    /\ quests[lastQuest.questId].rewardItems = <<"sword">>
    /\ Quantity(inventory, "hero", "sword") = 1

\* C9: assign_quest(c, q) succeeds only if every prerequisite of q is in c's
\* completedQuests; with one missing it fails with the prerequisite error
\* naming a missing quest and changes nothing; with none missing, and q
\* neither active nor completed for c, it succeeds.
C9_AssignNeedsPrerequisites ==
    (lastQuest.op = "assign_quest" /\ lastQuest.found) =>
        LET c == lastQuest.characterId
            q == lastQuest.questId
            PrerequisitesMet(x, y) ==
                \A i \in 1..Len(quests[y].prerequisites) :
                    Includes(LogOrEmpty(x).completedQuests, quests[y].prerequisites[i])
        IN /\ lastQuest.ok => PrerequisitesMet(c, q)
           /\ ~PrerequisitesMet(c, q) =>
                /\ ~lastQuest.ok
                /\ ~lastQuest.changed
                /\ lastQuest.error.kind = "prerequisite"
                /\ Includes(quests[q].prerequisites, lastQuest.error.missing)
                /\ ~Includes(LogOrEmpty(c).completedQuests, lastQuest.error.missing)
           /\ (PrerequisitesMet(c, q) /\ ~lastQuest.wasActive /\ ~lastQuest.wasCompleted)
                => lastQuest.ok

\* a quest with a prerequisite was just assigned, its prerequisite completed
C9_Witness ==
    /\ lastQuest.op = "assign_quest"
    /\ lastQuest.found
    /\ lastQuest.ok
    /\ quests[lastQuest.questId].prerequisites # <<>>
    /\ completions[lastQuest.characterId][quests[lastQuest.questId].prerequisites[1]] = 1

\* C10: in every quest log each quest id is in at most one of activeQuests,
\* completedQuests and failedQuests and at most once in it; assign_quest is
\* rejected for a quest already active or already completed.
C10_QuestInOneList ==
    /\ \A c \in CharacterIds :
        questLogs[c] # NoRow =>
            LET all == questLogs[c].activeQuests \o questLogs[c].completedQuests
                            \o questLogs[c].failedQuests
            IN \A i, j \in 1..Len(all) : all[i] = all[j] => i = j
    /\ (lastQuest.op = "assign_quest" /\ lastQuest.found
            /\ (lastQuest.wasActive \/ lastQuest.wasCompleted)) => ~lastQuest.ok

\* an assign_quest of an active quest was just refused while another quest
\* sits in completedQuests
C10_Witness ==
    /\ lastQuest.op = "assign_quest"
    /\ lastQuest.found
    /\ lastQuest.wasActive
    /\ ~lastQuest.ok
    /\ Len(questLogs["hero"].completedQuests) = 1
    /\ Len(questLogs["hero"].activeQuests) = 1

(***************************************************************************)
(* Properties of combat turns, attacks and persistence.                    *)
(***************************************************************************)
\* C14: after advance_turn the current participant is the first one after
\* the previous current participant, in turn order and cyclically, that is
\* not defeated (when any participant is not defeated), and round has grown
\* by exactly 1 if the turn index wrapped past the end of the turn order and
\* is unchanged otherwise.
C14_AdvanceSkipsDefeated ==
    lastCall.op = "advance_turn" =>
        LET engine == manager[lastCall.session]
            n == Len(engine.turnOrder)
            steps == ((engine.currentTurnIndex - lastCall.beforeIndex - 1) % n) + 1
            passed == {engine.turnOrder[((lastCall.beforeIndex + k) % n) + 1] :
                        k \in 1..(steps - 1)}
            wrapped == lastCall.beforeIndex + steps >= n
        IN /\ (\E p \in ParticipantIds : ~IsDefeated(engine, p)) =>
                /\ ~IsDefeated(engine, CurrentParticipantId(engine))
                /\ \A p \in passed : IsDefeated(engine, p)
           /\ engine.round = lastCall.beforeRound + (IF wrapped THEN 1 ELSE 0)

\* advance_turn just passed over a defeated participant, wrapped and came
\* back to the participant whose turn it had been
C14_Witness ==
    /\ lastCall.op = "advance_turn"
    /\ manager[lastCall.session].currentTurnIndex = lastCall.beforeIndex
    /\ manager[lastCall.session].round = lastCall.beforeRound + 1
    /\ ~IsDefeated(manager[lastCall.session],
                   CurrentParticipantId(manager[lastCall.session]))
    /\ \E p \in ParticipantIds : IsDefeated(manager[lastCall.session], p)

\* C15: after an attack with d20 roll r the target's hp is
\* max(0, hp before - applied), where applied is 0 when r = 1, 2 x damage
\* when r = 20, and otherwise damage if r + attackBonus >= dc and 0 if not;
\* the target is reported defeated exactly when its hp is then 0; every
\* other participant is as before.
C15_AttackRoll ==
    lastCall.op = "attack" =>
        LET engine == manager[lastCall.session]
            r == lastCall.roll
            hit == IF r = 1 THEN FALSE
                   ELSE IF r = 20 THEN TRUE
                   ELSE r + lastCall.attackBonus >= lastCall.dc
            applied == IF ~hit THEN 0
                       ELSE IF r = 20 THEN 2 * lastCall.damage
                       ELSE lastCall.damage
            target == lastCall.targetId
        IN /\ engine.participants[target].hp
                = Max(0, lastCall.before[target].hp - applied)
           /\ engine.participants[target].maxHp = lastCall.before[target].maxHp
           /\ lastCall.defeated <=> (engine.participants[target].hp = 0)
           /\ \A p \in ParticipantIds \ {target} :
                engine.participants[p] = lastCall.before[p]

\* a natural 20 just took a target from 1 hp to 0 with doubled damage
C15_Witness ==
    /\ lastCall.op = "attack"
    /\ lastCall.roll = 20
    /\ lastCall.damage = 1
    /\ lastCall.before[lastCall.targetId].hp = 1
    /\ manager[lastCall.session].participants[lastCall.targetId].hp = 0
    /\ lastCall.defeated

C11_EquippedHasOwnSlot ==
    \A c \in CharacterIds :
        /\ \A i \in InventoryItemIds :
            inventory[c][i] # NoRow =>
                (inventory[c][i].equipped <=> inventory[c][i].slot # Null)
        /\ \A i, j \in InventoryItemIds :
            (/\ i # j
             /\ inventory[c][i] # NoRow /\ inventory[c][i].equipped
             /\ inventory[c][j] # NoRow /\ inventory[c][j].equipped)
                => inventory[c][i].slot # inventory[c][j].slot

\* an equipItem just took a slot another item of the character was holding
C11_Witness ==
    /\ lastInv.op = "equipItem"
    /\ lastInv.displaced
    /\ inventory[lastInv.characterId][lastInv.itemId] # NoRow
    /\ inventory[lastInv.characterId][lastInv.itemId].slot = lastInv.slot
    /\ \E i \in InventoryItemIds \ {lastInv.itemId} :
        /\ inventory[lastInv.characterId][i] # NoRow
        /\ ~inventory[lastInv.characterId][i].equipped

\* C12 as stated: transferItem returns false and changes nothing when the
\* source has no row, fewer than q units or an equipped stack; otherwise the
\* source quantity drops by q (row deleted at 0), the destination quantity
\* rises by q (row present) and the item's total is unchanged.
C12_TransferMovesExactly ==
    lastInv.op = "transferItem" =>
        LET from == lastInv.fromCharacterId
            to == lastInv.toCharacterId
            i == lastInv.itemId
            q == lastInv.quantity
            had(row) == IF row = NoRow THEN 0 ELSE row.quantity
            blocked == \/ lastInv.source = NoRow
                       \/ lastInv.source.quantity < q
                       \/ lastInv.source.equipped
        IN /\ blocked => (~lastInv.result /\ ~lastInv.changed)
           /\ ~blocked =>
                /\ lastInv.result
                /\ Quantity(inventory, from, i) = had(lastInv.source) - q
                /\ had(lastInv.source) - q = 0 => inventory[from][i] = NoRow
                /\ Quantity(inventory, to, i) = had(lastInv.destination) + q
                /\ inventory[to][i] # NoRow
                /\ TotalQuantity(inventory, i) = lastInv.total

\* C12 (amended): as stated when source and destination are different
\* characters; a transfer from a character to itself that passes the three
\* checks returns true and leaves every quantity as it was.
C12_TransferMovesExactlyBetweenTwo ==
    lastInv.op = "transferItem" =>
        LET from == lastInv.fromCharacterId
            to == lastInv.toCharacterId
            i == lastInv.itemId
            q == lastInv.quantity
            had(row) == IF row = NoRow THEN 0 ELSE row.quantity
            blocked == \/ lastInv.source = NoRow
                       \/ lastInv.source.quantity < q
                       \/ lastInv.source.equipped
        IN /\ blocked => (~lastInv.result /\ ~lastInv.changed)
           /\ ~blocked =>
                /\ lastInv.result
                /\ TotalQuantity(inventory, i) = lastInv.total
                /\ from # to =>
                    /\ Quantity(inventory, from, i) = had(lastInv.source) - q
                    /\ had(lastInv.source) - q = 0 => inventory[from][i] = NoRow
                    /\ Quantity(inventory, to, i) = had(lastInv.destination) + q
                    /\ inventory[to][i] # NoRow
                /\ from = to =>
                    /\ Quantity(inventory, from, i) = had(lastInv.source)
                    /\ ~lastInv.changed

\* a transfer just moved part of a stack onto a stack the destination held
C12_Witness ==
    /\ lastInv.op = "transferItem"
    /\ lastInv.result
    /\ lastInv.fromCharacterId # lastInv.toCharacterId
    /\ lastInv.quantity = 1
    /\ lastInv.source # NoRow /\ lastInv.source.quantity = 2
    /\ lastInv.destination # NoRow /\ lastInv.destination.quantity = 1
    /\ Quantity(inventory, lastInv.fromCharacterId, lastInv.itemId) = 1
    /\ Quantity(inventory, lastInv.toCharacterId, lastInv.itemId) = 2

\* C13: every existing inventory row has quantity >= 1.
C13_QuantityAtLeastOne ==
    \A c \in CharacterIds, i \in InventoryItemIds :
        inventory[c][i] # NoRow => inventory[c][i].quantity >= 1

C20_SellWithinCapacity ==
    /\ \A n \in TheftActors :
        fences[n] # NoRow =>
            fences[n].dailyHeatUsed <= fences[n].dailyHeatCapacity
    /\ lastTheft.op = "decay" =>
        \A n \in TheftActors :
            fences[n] # NoRow => fences[n].dailyHeatUsed = 0
    /\ lastTheft.op = "sell" =>
        LET record == lastTheft.record
            fence == lastTheft.fence
        IN  /\ ~lastTheft.recordsChanged
            /\ ~lastTheft.othersChanged
            /\ lastTheft.ok =>
                /\ record # NoRow
                /\ fence # NoRow
                /\ HeatIndex(fence.maxHeatLevel) <= HeatIndex(record.heatLevel)
                /\ fence.dailyHeatCapacity - fence.dailyHeatUsed
                     >= HEAT_VALUES[record.heatLevel]
                /\ ~lastTheft.underCooldown
                /\ fences[lastTheft.fenceId] =
                     [fence EXCEPT !.dailyHeatUsed =
                        @ + HEAT_VALUES[record.heatLevel]]
            /\ ~lastTheft.ok => ~lastTheft.fenceChanged

\* a sale has filled a fence's daily capacity exactly
C20_Witness ==
    /\ lastTheft.op = "sell"
    /\ lastTheft.ok
    /\ fences[lastTheft.fenceId].dailyHeatUsed =
         fences[lastTheft.fenceId].dailyHeatCapacity
    /\ lastTheft.fence.dailyHeatUsed > 0

(***************************************************************************)
(* Properties of the action routers of the consolidated tools.             *)
(***************************************************************************)
\* C17: when the action of a theft_manage, improvisation_manage or
\* batch_manage call equals no canonical action and no alias and is less
\* than 0.6 similar to each of them, the call returns a guiding error with
\* the available actions and suggestions, runs no sub-handler and changes
\* no table.
C17_UnmatchedActionGuides ==
    lastRoute.tool # "none" =>
        LET actions ==
                CASE lastRoute.tool = "theft_manage" -> THEFT_ACTIONS
                  [] lastRoute.tool = "improvisation_manage" ->
                        IMPROVISATION_ACTIONS
                  [] lastRoute.tool = "batch_manage" -> BATCH_ACTIONS
            aliases ==
                CASE lastRoute.tool = "theft_manage" -> TheftAliases
                  [] lastRoute.tool = "improvisation_manage" ->
                        ImprovisationAliases
                  [] lastRoute.tool = "batch_manage" -> BATCH_ALIASES
            names ==
                {actions[k] : k \in 1..Len(actions)}
                \cup {aliases[k][1] : k \in 1..Len(aliases)}
            unmatched ==
                \A n \in names :
                    /\ n # lastRoute.action
                    /\ ~AtLeast(SimilarityTable[lastRoute.action][n],
                                Threshold)
            result == lastRoute.result
        IN  unmatched =>
                /\ result.error
                /\ result.availableActions = actions
                /\ \A k \in 1..Len(result.suggestions) :
                    /\ result.suggestions[k].value \in names
                    /\ result.suggestions[k].similarity =
                         SimilarityTable[lastRoute.action][
                            result.suggestions[k].value]
                /\ lastRoute.handler = "none"
                /\ ~lastRoute.changed

\* theft_manage was called with action 'xyz' while a theft was on record,
\* and answered with a guiding error
C17_Witness ==
    /\ lastRoute.tool = "theft_manage"
    /\ lastRoute.action = "xyz"
    /\ lastRoute.result.error
    /\ Len(lastRoute.result.suggestions) > 0
    /\ theftRecords["gem"] # NoRow
    /\ fences["ann"] # NoRow

\* C18: an action string equal to a canonical action runs that action's
\* handler; otherwise one equal to an alias runs the alias's action
\* (theft_manage 'fence' runs sell); otherwise, and only then, the most
\* similar name decides if its similarity reaches 0.6 ('sel' runs sell);
\* two calls of a tool with the same string run the same handler.
C18_OrderedResolution ==
    [][LET route == lastRoute'
           actions ==
               CASE route.tool = "theft_manage" -> THEFT_ACTIONS
                 [] route.tool = "improvisation_manage" ->
                       IMPROVISATION_ACTIONS
                 [] route.tool = "batch_manage" -> BATCH_ACTIONS
           aliases ==
               CASE route.tool = "theft_manage" -> TheftAliases
                 [] route.tool = "improvisation_manage" ->
                       ImprovisationAliases
                 [] route.tool = "batch_manage" -> BATCH_ALIASES
           names ==
               {actions[k] : k \in 1..Len(actions)}
               \cup {aliases[k][1] : k \in 1..Len(aliases)}
           actionOf(n) ==
               IF \E k \in 1..Len(actions) : actions[k] = n THEN {n}
               ELSE {aliases[k][2] : k \in {h \in 1..Len(aliases) :
                                                aliases[h][1] = n}}
           similar(n) == SimilarityTable[route.action][n]
           canonical == \E k \in 1..Len(actions) : actions[k] = route.action
           aliased == \E k \in 1..Len(aliases) : aliases[k][1] = route.action
       IN  route.tool # "none" =>
             /\ canonical => route.handler = route.action
             /\ (~canonical /\ aliased) =>
                    actionOf(route.action) = {route.handler}
             /\ (~canonical /\ ~aliased /\ route.handler # "none") =>
                    \E n \in names :
                        /\ route.handler \in actionOf(n)
                        /\ AtLeast(similar(n), Threshold)
                        /\ \A m \in names : AtLeast(similar(n), similar(m))
             /\ route.result.matchType = "fuzzy" => (~canonical /\ ~aliased)
             /\ (route.tool = "theft_manage" /\ route.action = "fence") =>
                    (route.handler = "sell" /\ lastTheft'.op = "sell")
             /\ (route.tool = "theft_manage" /\ route.action = "sel") =>
                    /\ route.handler = "sell"
                    /\ route.result.matchType = "fuzzy"
                    /\ lastTheft'.op = "sell"
             /\ (route.tool = lastRoute.tool
                    /\ route.action = lastRoute.action) =>
                    route.handler = lastRoute.handler]_vars

\* theft_manage was called with the alias 'fence' and the sale went through
C18_Witness ==
    /\ lastRoute.tool = "theft_manage"
    /\ lastRoute.action = "fence"
    /\ lastRoute.result.matchType = "alias"
    /\ lastRoute.handler = "sell"
    /\ lastTheft.op = "sell"
    /\ lastTheft.ok

\* C21: recognize of a stolen item answers hostile for the npc it was
\* stolen from (witness or not), suspicious for a witness, and otherwise
\* recognises it exactly when roll < min(100, heatValue + bounty / 10); an
\* item without a theft record is never recognised; no row changes.
C21_RecognizeBands ==
    lastTheft.op = "recognize" =>
        LET record == theftRecords[lastTheft.itemId]
            chance ==
                Min(1000,
                    10 * (CASE record.heatLevel = "burning" -> 80
                            [] record.heatLevel = "hot" -> 60
                            [] record.heatLevel = "warm" -> 40
                            [] record.heatLevel = "cool" -> 20
                            [] record.heatLevel = "cold" -> 5)
                    + record.bounty)
        IN  /\ lastTheft.before = <<theftRecords, fences>>
            /\ IF record = NoRow THEN ~lastTheft.recognized
               ELSE IF lastTheft.npcId = record.stolenFrom
               THEN lastTheft.recognized /\ lastTheft.reaction = "hostile"
               ELSE IF lastTheft.npcId \in record.witnesses
               THEN lastTheft.recognized /\ lastTheft.reaction = "suspicious"
               ELSE lastTheft.recognized <=> lastTheft.roll < chance

\* a stranger's roll equal to the chance of a burning record with a bounty
\* of 10 was not recognised
C21_Witness ==
    /\ lastTheft.op = "recognize"
    /\ lastTheft.npcId = "ann"
    /\ theftRecords[lastTheft.itemId] # NoRow
    /\ theftRecords[lastTheft.itemId].witnesses = {}
    /\ theftRecords[lastTheft.itemId].heatLevel = "burning"
    /\ theftRecords[lastTheft.itemId].bounty = 10
    /\ lastTheft.roll = 810
    /\ ~lastTheft.recognized

(***************************************************************************)
(* Properties of the world tools.                                          *)
(***************************************************************************)
\* C22: after every apply_map_patch that modified the world, also one that
\* failed after applying some commands, the stored tile_cache is NULL.
C22_PatchInvalidatesTileCache ==
    (lastWorld.op = "apply_map_patch" /\ lastWorld.modified) =>
        worldDb.tileCache = <<>>

(***************************************************************************)
(* Properties of quest completion as one unit.                             *)
(***************************************************************************)
\* C23: complete_quest is all-or-none: after a call, either every reward
\* item was added to the character's inventory, the quest moved from
\* activeQuests to completedQuests and its status is completed, or nothing
\* stored was changed.
C23_CompleteQuestAllOrNone ==
    (lastQuest.op = "complete_quest" /\ lastQuest.found) =>
        LET c == lastQuest.characterId
            q == lastQuest.questId
            items == quests[q].rewardItems
            due(item) == Cardinality({i \in 1..Len(items) : items[i] = item})
            before(item) == IF lastQuest.heldBefore[item] = NoRow THEN 0
                            ELSE lastQuest.heldBefore[item].quantity
        IN  \/ ~lastQuest.changed
            \/ /\ \A item \in InventoryItemIds :
                    Quantity(inventory, c, item) = before(item) + due(item)
               /\ Includes(questLogs[c].completedQuests, q)
               /\ ~Includes(questLogs[c].activeQuests, q)
               /\ quests[q].status = "completed"

(***************************************************************************)
(* Properties of the rest tools.                                           *)
(***************************************************************************)
\* C27: take_short_rest with N hit dice sets hp to min(maxHp, hp + the sum
\* over the N dice of max(1, roll + conModifier)), never lowers hp and with
\* N = 0 leaves hp as it was; take_long_rest sets hp to maxHp; neither
\* changes another field of the character.
C27_RestSetsHp ==
    (lastCall.op \in {"take_short_rest", "take_long_rest"}) =>
        LET before == lastCall.before
            after == characters[lastCall.characterId]
            conModifier == (before.con - 10) \div 2
            healing[k \in 0..2] ==
                IF k = 0 THEN 0
                ELSE healing[k - 1] + Max(1, lastCall.rolls[k] + conModifier)
        IN  /\ after = [before EXCEPT !.hp = after.hp]
            /\ lastCall.op = "take_long_rest" => after.hp = before.maxHp
            /\ lastCall.op = "take_short_rest" =>
                /\ after.hp = Min(before.maxHp,
                                  before.hp + healing[lastCall.hitDiceToSpend])
                /\ after.hp >= before.hp
                /\ lastCall.hitDiceToSpend = 0 => after.hp = before.hp

(***************************************************************************)
(* Properties of the improvisation engine.                                 *)
(***************************************************************************)
\* C24: synthesize gives the outcome of the bands: mastery if the roll is 20
\* or the margin is at least 10; else catastrophic if the roll is 1 or the
\* margin is at most -10; else success for a margin of 0 to 9, fizzle for -5
\* to -1 and backfire for -9 to -6, with margin = roll + modifier - dc.
C24_SynthesisBands ==
    (lastImprov.op = "synthesize" /\ lastImprov.ok) =>
        LET r == lastImprov.roll
            margin == lastImprov.roll + lastImprov.modifier - lastImprov.dc
        IN  lastImprov.outcome =
                IF r = 20 \/ margin >= 10 THEN "mastery"
                ELSE IF r = 1 \/ margin <= -10 THEN "catastrophic"
                ELSE IF margin >= 0 THEN "success"
                ELSE IF margin >= -5 THEN "fizzle"
                ELSE "backfire"

\* C25: after a synthesize call spellMastered holds iff the outcome is
\* mastery and spellSlotConsumed iff it is not; the spellbook gains a row,
\* which is the caster's, only with mastery and is unchanged otherwise.
C25_MasteryAloneFillsSpellbook ==
    (lastImprov.op = "synthesize" /\ lastImprov.ok) =>
        /\ lastImprov.spellMastered <=> lastImprov.outcome = "mastery"
        /\ ~lastImprov.spellSlotConsumed <=> lastImprov.outcome = "mastery"
        /\ lastImprov.outcome # "mastery" => spellbook = lastImprov.before
        /\ spellbook # lastImprov.before =>
            /\ Len(spellbook) = Len(lastImprov.before) + 1
            /\ SubSeq(spellbook, 1, Len(lastImprov.before)) = lastImprov.before
            /\ spellbook[Len(spellbook)].characterId = lastImprov.casterId

\* a success that was not a mastery consumed the slot and left the
\* spellbook, which holds a spell mastered before, as it was
C25_Witness ==
    /\ lastImprov.op = "synthesize"
    /\ lastImprov.ok
    /\ lastImprov.outcome = "success"
    /\ lastImprov.spellSlotConsumed
    /\ ~lastImprov.spellMastered
    /\ Len(spellbook) = 1
    /\ spellbook = lastImprov.before

\* C26: for a stunt with dc in 5..35 and total = roll + modifier,
\* criticalSuccess holds iff the roll is 20 or total >= dc + 10 and
\* criticalFailure iff the roll is 1 or total <= dc - 10; damage is present
\* only on success and is twice the damage roll exactly when criticalSuccess;
\* self-damage is present only on a critical failure.
C26_StuntClassification ==
    (lastImprov.op = "stunt" /\ lastImprov.ok) =>
        /\ lastImprov.dc \in 5..35
        /\ lastImprov.total = lastImprov.roll + lastImprov.modifier
        /\ lastImprov.criticalSuccess <=>
            (lastImprov.roll = 20 \/ lastImprov.total >= lastImprov.dc + 10)
        /\ lastImprov.criticalFailure <=>
            (lastImprov.roll = 1 \/ lastImprov.total <= lastImprov.dc - 10)
        /\ lastImprov.damage # <<>> =>
            /\ lastImprov.success
            /\ lastImprov.damage[1] =
                IF lastImprov.criticalSuccess THEN 2 * lastImprov.damageRoll
                ELSE lastImprov.damageRoll
        /\ lastImprov.selfDamage # <<>> =>
            (lastImprov.criticalFailure /\ ~lastImprov.success)

\* a natural 20 that missed dc 35 by ten or more: critical success and
\* critical failure at once, the damage doubled and no self-damage
C26_Witness ==
    /\ lastImprov.op = "stunt"
    /\ lastImprov.ok
    /\ lastImprov.roll = 20
    /\ lastImprov.dc = 35
    /\ lastImprov.total <= 25
    /\ lastImprov.criticalSuccess
    /\ lastImprov.criticalFailure
    /\ lastImprov.damage = <<6>>
    /\ lastImprov.selfDamage = <<>>

\* C28: advance_durations with rounds = 0 leaves every custom effect's
\* rounds remaining, active flag and existence as they were.
C28_AdvanceZeroChangesNothing ==
    (lastImprov.op = "advance_durations" /\ lastImprov.rounds = 0) =>
        effects = lastImprov.before

\* advance_durations with rounds = 0 was just called on a target holding an
\* active round-based effect with no round remaining
C28_Witness ==
    /\ lastImprov.op = "advance_durations"
    /\ lastImprov.rounds = 0
    /\ \E i \in 1..Len(effects) :
        /\ effects[i] # NoRow
        /\ effects[i].targetId = lastImprov.targetId
        /\ effects[i].durationType = "rounds"
        /\ effects[i].isActive
        /\ effects[i].roundsRemaining = 0

(***************************************************************************)
(* Properties of the sessions and of ended encounters.                     *)
(***************************************************************************)
\* C29: the engines and worlds held in memory are partitioned by session: a
\* call under one session leaves the engine and the world of every other
\* session as they were, and end_encounter under a session that holds no
\* engine fails, writes back no hp and leaves every engine in place.
C29_SessionsPartitioned ==
    [][/\ \E s \in Sessions :
            \A t \in Sessions \ {s} : manager'[t] = manager[t]
       /\ lastCall'.op \in {"attack", "advance_turn", "end_encounter",
                            "load_encounter"} =>
            \A t \in Sessions \ {lastCall'.session} : manager'[t] = manager[t]
       /\ \A t \in Sessions \ {lastWorld'.session} :
            worldManager'[t] = worldManager[t]
       /\ (lastCall' # lastCall /\ lastCall'.op = "end_encounter"
              /\ manager[lastCall'.session] = NoEngine) => ~lastCall'.ok
       /\ (lastCall'.op = "end_encounter" /\ ~lastCall'.ok) =>
            (characters' = characters /\ manager' = manager)
      ]_vars

\* end_encounter under B was just refused while A holds the engine, and the
\* world A patched is held unpatched by B
C29_Witness ==
    /\ lastCall.op = "end_encounter"
    /\ lastCall.session = "B"
    /\ ~lastCall.ok
    /\ manager["A"] # NoEngine
    /\ manager["B"] = NoEngine
    /\ worldManager["A"] = [applied |-> 1]
    /\ worldManager["B"] = [applied |-> 0]

\* C30: an execute_combat_action or advance_turn that follows a successful
\* end_encounter is rejected: it is not carried out, and the persisted
\* encounter and the character rows stay as end_encounter left them.
C30_EndedEncounterRejectsActions ==
    [][(lastCall.op = "end_encounter" /\ lastCall.ok
            /\ lastCall'.op \in {"attack", "advance_turn"}) =>
            (encDb' = encDb /\ characters' = characters /\ manager' = manager)
      ]_vars

(***************************************************************************)
(* Properties of the encounter lifecycle.                                  *)
(***************************************************************************)
\* C31: after a successful end_encounter the persisted encounter's status is
\* completed, and no step moves a persisted encounter from completed back
\* to active.
C31_EndEncounterCompletes ==
    [][/\ (lastCall' # lastCall /\ lastCall'.op = "end_encounter"
             /\ lastCall'.ok /\ encDb' # NoRow) => encDb'.status = "completed"
       /\ (encDb # NoRow /\ encDb.status = "completed") =>
            (encDb' # NoRow /\ encDb'.status = "completed")
      ]_vars

(***************************************************************************)
(* Properties of the relational schema.                                    *)
(***************************************************************************)
\* C32: a step that deletes a world removes every region, tile, structure,
\* river, quest and turn_state row of that world and no row of another
\* world, and after every step each such row references an existing world.
C32_WorldDeleteCascades ==
    [][/\ \A t \in WorldTables : \A r \in store'.rows[t] : r[2] \in store'.worlds
       /\ \A w \in store.worlds \ store'.worlds : \A t \in WorldTables :
            store'.rows[t] = {r \in store.rows[t] : r[2] # w}
      ]_vars

\* one world is left and holds a region, the other having been deleted
\* together with its quest
C32_Witness ==
    /\ store.worlds = {"w2"}
    /\ store.rows["regions"] = {<<"r2", "w2">>}
    /\ store.rows["quests"] = {}
    /\ store.rows["turn_state"] = {<<"w2", "w2">>}

\* C33: the hp write-back happens at most once per encounter: a successful
\* end_encounter that directly follows a load_encounter by a session that
\* held no engine for the persisted encounter (the session had already ended
\* it: only end_encounter drops an engine) overwrites no character's hp.
C33_HpWrittenBackOnce ==
    [][(/\ lastCall.op = "load_encounter"
        /\ lastCall.before = NoEngine
        /\ lastCall'.op = "end_encounter"
        /\ lastCall'.ok) => characters' = characters
      ]_vars

\* C34: no update is lost across sessions: an execute_combat_action or
\* advance_turn step changes the persisted snapshot only by what that call
\* does, so what the other session's calls persisted stays: advance_turn
\* keeps every persisted hp, an attack keeps the persisted round and active
\* token and the persisted hp of every participant but its target.
C34_NoLostUpdate ==
    [][/\ (lastCall' # lastCall /\ lastCall'.op = "advance_turn"
             /\ encDb # NoRow) =>
            \A p \in ParticipantIds : encDb'.tokens[p].hp = encDb.tokens[p].hp
       /\ (lastCall' # lastCall /\ lastCall'.op = "attack" /\ encDb # NoRow) =>
            /\ encDb'.round = encDb.round
            /\ encDb'.activeTokenId = encDb.activeTokenId
            /\ \A p \in ParticipantIds \ {lastCall'.targetId} :
                 encDb'.tokens[p].hp = encDb.tokens[p].hp
      ]_vars

\* the persisted snapshot equals the engine the session holds: tokens' hp
\* and conditions, round and active token id
SnapshotEqualsEngine(s) ==
    manager[s] # NoEngine =>
        /\ encDb # NoRow
        /\ \A p \in ParticipantIds :
            /\ encDb.tokens[p].hp = manager[s].participants[p].hp
            /\ encDb.tokens[p].conditions = manager[s].participants[p].conditions
        /\ encDb.round = manager[s].round
        /\ encDb.activeTokenId = CurrentParticipantId(manager[s])

\* a step of a call that fails: an attack without attackBonus, dc or damage,
\* a heal without amount, or a call naming an encounter that is not found
FailedCombatCall(s) ==
    \/ HandleAttack(s, "hero", 0, 10, 1, 1, FALSE)
    \/ HandleHeal(s, "hero", 1, FALSE)
    \/ (EngineFor(s) = NoEngine /\ HandleAdvanceTurn(s))

\* C35: within one session the persisted snapshot equals the session's
\* engine after create_encounter and after every completed
\* execute_combat_action and advance_turn, and a call that fails changes
\* neither the session's engine nor the snapshot.
C35_SnapshotRefinesEngine ==
    [][/\ \A s \in MainSessions : SnapshotEqualsEngine(s)'
       /\ \A s \in MainSessions :
            FailedCombatCall(s) => (manager' = manager /\ encDb' = encDb)
      ]_vars

\* C36: equipItem(c, item, slot) for an item c does not hold leaves the
\* inventory unchanged; in particular the item equipped in that slot stays
\* equipped.
C36_EquipMissingItemChangesNothing ==
    [][(/\ lastInv'.op = "equipItem"
        /\ inventory[lastInv'.characterId][lastInv'.itemId] = NoRow)
         => inventory' = inventory
      ]_vars

\* C37: in every stunt result criticalSuccess and criticalFailure are never
\* both true, criticalSuccess implies success and criticalFailure implies
\* not success.
C37_StuntFlagsConsistent ==
    (lastImprov.op = "stunt" /\ lastImprov.ok) =>
        /\ ~(lastImprov.criticalSuccess /\ lastImprov.criticalFailure)
        /\ lastImprov.criticalSuccess => lastImprov.success
        /\ lastImprov.criticalFailure => ~lastImprov.success

C39_TilesMatchSessionWorld ==
    (lastWorld.op = "get_world_tiles" /\ lastWorld.ok) =>
        LET s == lastWorld.session
        IN lastWorld.returned = <<GetOrRestoreWorld(worldManager, s)[s].applied>>

====
